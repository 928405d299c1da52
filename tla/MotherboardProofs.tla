-------------------------- MODULE MotherboardProofs --------------------------
(***************************************************************************)
(* The safety of Motherboard, for every instance.  Nothing the kernel      *)
(* keeps outlives the connection it depends on; anonymous stores are       *)
(* counted exactly, and subscriptions hang on stores that exist; verdicts  *)
(* and closings are told; subscribers get values in order and end with the *)
(* current one; and nobody sleeps on a latch who has something to do.      *)
(***************************************************************************)
EXTENDS MotherboardTypes

(***************************************************************************)
(* ServedByOpenFiles is not inductive: that the owner of an anonymous      *)
(* store is still open after a connection closed follows from the owner    *)
(* being the file that provides the store's service, because clean-up      *)
(* removes the store by its service.                                       *)
(***************************************************************************)
ServicesServed == \A s \in ServiceNames : services[s] # Nil => services[s].file \in open
CallsServed == \A p \in replyTokens.pending : p.service \in open
RequestsServed == \A p \in subTokens.pending : p.service \in open /\ p.client \in open
SubscribersServed == \A s \in subs : s.file \in open
OwnersProvide ==
    \A a \in AnonymousIds :
        anonymous[a] # Nil => /\ services[anonymous[a].service] # Nil
                              /\ services[anonymous[a].service].file = anonymous[a].owner

ServedInv ==
    /\ ServicesServed
    /\ CallsServed
    /\ RequestsServed
    /\ SubscribersServed
    /\ OwnersProvide

LEMMA OwnerIsOpen ==
    ASSUME TypeInv, ServedInv, NEW a \in AnonymousIds, anonymous[a] # Nil
    PROVE  /\ anonymous[a].service \in ServiceNames
           /\ anonymous[a].owner \in open
<1>1. anonymous[a] \in AnonymousStore(ServiceNames, FileIds)
  BY DEF TypeInv, TypeOK, StoreTypes
<1>2. anonymous[a].service \in ServiceNames
  BY <1>1 DEF AnonymousStore
<1>3. QED
  BY <1>2 DEF ServedInv, OwnersProvide, ServicesServed

LEMMA ServedInvSuffices == TypeInv /\ ServedInv => ServedByOpenFiles
BY OwnerIsOpen DEF ServedByOpenFiles, ServedInv, ServicesServed, CallsServed,
   RequestsServed, SubscribersServed

(* Counting a store up or down leaves its owner and its service alone. *)
SameOwner(x, y) == x # Nil => y # Nil /\ x.owner = y.owner /\ x.service = y.service

LEMMA CountingKeepsOwner ==
    ASSUME NEW x \in MaybeAStore, NEW m \in Nat, NEW n \in Nat
    PROVE  /\ SameOwner(Decrement(x, m, n), x)
           /\ x # Nil => /\ SameOwner(IncrementPending(x), x)
                         /\ SameOwner(AcceptPending(x), x)
<1>1. x # Nil => x \in AStore
  BY DEF MaybeAStore
<1>2. SameOwner(Decrement(x, m, n), x)
  <2>1. CASE x = Nil \/ (m = 0 /\ n = 0)
    BY <2>1 DEF Decrement, SameOwner
  <2>2. CASE ~(x = Nil \/ (m = 0 /\ n = 0))
    <3> DEFINE y == [x EXCEPT !.pending = SaturatingSub(@, m), !.accepted = SaturatingSub(@, n)]
    <3>1. y.owner = x.owner /\ y.service = x.service
      BY <1>1, <2>2 DEF AStore, AnonymousStore
    <3>2. Decrement(x, m, n) \in {Nil, y}
      BY <2>2 DEF Decrement, CleanupIfUnused
    <3> HIDE DEF y
    <3>3. QED
      BY <2>2, <3>1, <3>2 DEF SameOwner
  <2>3. QED
    BY <2>1, <2>2
<1>3. x # Nil => SameOwner(IncrementPending(x), x)
  BY <1>1 DEF AStore, AnonymousStore, IncrementPending, SameOwner
<1>4. x # Nil => SameOwner(AcceptPending(x), x)
  BY <1>1 DEF AStore, AnonymousStore, AcceptPending, SameOwner
<1>5. QED
  BY <1>2, <1>3, <1>4

(* The file that provides each service, which most commands leave alone. *)
SameProviders ==
    \A s \in ServiceNames :
        services[s] # Nil => services'[s] # Nil /\ services'[s].file = services[s].file
NoNewProviders ==
    \A s \in ServiceNames :
        services'[s] # Nil => services[s] # Nil /\ services'[s].file = services[s].file
SameOwners == \A a \in AnonymousIds : SameOwner(anonymous'[a], anonymous[a])

LEMMA ProvidersKept ==
    ASSUME TypeInv, ServedInv, SameProviders, SameOwners
    PROVE  OwnersProvide'
<1> SUFFICES ASSUME NEW a \in AnonymousIds, anonymous'[a] # Nil
             PROVE  /\ services'[anonymous'[a].service] # Nil
                    /\ services'[anonymous'[a].service].file = anonymous'[a].owner
  BY DEF OwnersProvide
<1>1. /\ anonymous[a] # Nil
      /\ anonymous'[a].owner = anonymous[a].owner
      /\ anonymous'[a].service = anonymous[a].service
  BY DEF SameOwners, SameOwner
<1>2. anonymous[a].service \in ServiceNames
  BY <1>1, OwnerIsOpen
<1>3. QED
  BY <1>1, <1>2 DEF ServedInv, OwnersProvide, SameProviders

LEMMA ServicesKept ==
    ASSUME ServedInv, NoNewProviders, open \subseteq open'
    PROVE  ServicesServed'
BY DEF ServedInv, ServicesServed, NoNewProviders

LEMMA UnchangedServices ==
    ASSUME services' = services
    PROVE  SameProviders /\ NoNewProviders
BY DEF SameProviders, NoNewProviders

LEMMA UnchangedOwners ==
    ASSUME anonymous' = anonymous
    PROVE  SameOwners
BY DEF SameOwners, SameOwner

(* What most commands do: no table gets an entry, no provider or owner changes. *)
LEMMA NothingAdded ==
    ASSUME TypeInv, ServedInv, SameProviders, NoNewProviders, SameOwners,
           open \subseteq open',
           replyTokens'.pending \subseteq replyTokens.pending,
           subTokens'.pending \subseteq subTokens.pending,
           subs' \subseteq subs
    PROVE  ServedInv'
<1>1. ServicesServed' /\ OwnersProvide'
  BY ServicesKept, ProvidersKept
<1>2. CallsServed' /\ RequestsServed' /\ SubscribersServed'
  BY DEF ServedInv, CallsServed, RequestsServed, SubscribersServed
<1>3. QED
  BY <1>1, <1>2 DEF ServedInv

-------------------------------------------------------------------------------
(* The commands, one by one *)

LEMMA InitServed == Init => ServedInv
<1> SUFFICES ASSUME Init PROVE ServedInv
  OBVIOUS
<1>1. ServicesServed /\ OwnersProvide
  BY DEF Init, ServicesServed, OwnersProvide
<1>2. CallsServed /\ RequestsServed /\ SubscribersServed
  BY DEF Init, NoTokens, CallsServed, RequestsServed, SubscribersServed
<1>3. QED
  BY <1>1, <1>2 DEF ServedInv

LEMMA StutterServed == TypeInv /\ ServedInv /\ UNCHANGED vars => ServedInv'
BY UnchangedServices, UnchangedOwners, NothingAdded DEF vars

LEMMA OpenServed ==
    ASSUME TypeInv, ServedInv, NEW f \in FileIds, Open(f)
    PROVE  ServedInv'
BY UnchangedServices, UnchangedOwners, NothingAdded DEF Open, tables, storeVars

LEMMA BindKeepsProviders ==
    ASSUME TypeInv, NEW f, NEW s \in ServiceNames, BindService(f, s)
    PROVE  SameProviders
BY DEF BindService, SameProviders, TypeInv, TypeOK, CallTypes

LEMMA BindServiceServed ==
    ASSUME TypeInv, ServedInv, NEW f \in FileIds, NEW s \in ServiceNames, BindService(f, s)
    PROVE  ServedInv'
<1>1. /\ f \in open
      /\ services[s] = Nil
      /\ services' = [services EXCEPT ![s] = [file |-> f, queue |-> <<>>]]
      /\ UNCHANGED <<open, replyTokens, subTokens, subs, anonymous>>
  BY DEF BindService, tables, storeVars, bookkeeping
<1>2. [file |-> f, queue |-> <<>>] # Nil
  <2>1. [file |-> f, queue |-> <<>>] \in BoundService
    BY EmptySeq DEF BoundService
  <2>2. QED
    BY <2>1, NilAssumption DEF BoundService
<1>3. services'[s] = [file |-> f, queue |-> <<>>]
  BY <1>1 DEF TypeInv, TypeOK, CallTypes
<1>4. \A r \in ServiceNames : r # s => services'[r] = services[r]
  BY <1>1 DEF TypeInv, TypeOK, CallTypes
<1>5. ServicesServed'
  BY <1>1, <1>3, <1>4 DEF ServedInv, ServicesServed
<1>6. OwnersProvide'
  BY <1>1, BindKeepsProviders, ProvidersKept, UnchangedOwners
<1>7. QED
  BY <1>1, <1>5, <1>6 DEF ServedInv, CallsServed, RequestsServed, SubscribersServed

(* A call, or its flush, changes the queue of a service and nothing else of it. *)
LEMMA QueueKeepsProviders ==
    ASSUME TypeInv, NEW s \in ServiceNames, services[s] # Nil, NEW q,
           services' = [services EXCEPT ![s].queue = q],
           services'[s] \in BoundService
    PROVE  SameProviders /\ NoNewProviders
<1>1. services[s] \in BoundService
  BY DEF TypeInv, TypeOK, CallTypes, BoundService
<1>2. services' = [services EXCEPT ![s] = [services[s] EXCEPT !.queue = q]]
  OBVIOUS
<1>3. services'[s] = [services[s] EXCEPT !.queue = q]
  BY <1>2 DEF TypeInv, TypeOK, CallTypes
<1>4. services'[s].file = services[s].file
  BY <1>1, <1>3 DEF BoundService
<1>5. services'[s] # Nil
  BY NilAssumption DEF BoundService
<1>6. \A r \in ServiceNames : r # s => services'[r] = services[r]
  BY <1>2 DEF TypeInv, TypeOK, CallTypes
<1>7. QED
  BY <1>4, <1>5, <1>6 DEF SameProviders, NoNewProviders

LEMMA FunctionCallKeepsProviders ==
    ASSUME TypeInv, NEW f \in FileIds, NEW s \in ServiceNames, FunctionCall(f, s)
    PROVE  SameProviders /\ NoNewProviders
<1> DEFINE call == [client |-> f, origin |-> origin[f], call |-> lastCall[f] + 1]
           q == Append(services[s].queue, call)
<1>1. /\ services[s] # Nil
      /\ lastCall[f] < MaxCalls
      /\ services' = [services EXCEPT ![s].queue = q]
  BY DEF FunctionCall
<1>2. services[s] \in BoundService
  BY <1>1 DEF TypeInv, TypeOK, CallTypes, BoundService
<1>3. q \in Seq(QueuedRequest)
  <2>1. lastCall[f] + 1 \in CallIds /\ origin[f] \in Nat
    BY <1>1, MotherboardAssumption DEF TypeInv, TypeOK, FileTypes, CallIds
  <2>2. call \in QueuedRequest
    BY <2>1 DEF QueuedRequest
  <2>3. services[s].queue \in Seq(QueuedRequest)
    BY <1>2 DEF BoundService
  <2>4. QED
    BY <2>2, <2>3, AppendProperties
<1> HIDE DEF q
<1>4. [services[s] EXCEPT !.queue = q] \in BoundService
  BY <1>2, <1>3 DEF BoundService
<1>5. services'[s] \in BoundService
  BY <1>1, <1>4 DEF TypeInv, TypeOK, CallTypes
<1>6. QED
  BY <1>1, <1>5, QueueKeepsProviders

LEMMA FunctionCallServed ==
    ASSUME TypeInv, ServedInv, NEW f \in FileIds, NEW s \in ServiceNames, FunctionCall(f, s)
    PROVE  ServedInv'
BY FunctionCallKeepsProviders, UnchangedOwners, NothingAdded DEF FunctionCall, tables, storeVars

LEMMA FunctionCallReplyServed ==
    ASSUME TypeInv, ServedInv, NEW f \in FileIds, NEW m, NEW badFds, NEW shortage,
           FunctionCallReply(f, m, badFds, shortage)
    PROVE  ServedInv'
<1>1. UNCHANGED <<services, open, subTokens, subs, anonymous>>
  BY DEF FunctionCallReply, storeVars, bookkeeping
<1>2. replyTokens' = replyTokens \/ \E entries : replyTokens' = Discard(replyTokens, entries)
  BY DEF FunctionCallReply
<1>3. replyTokens'.pending \subseteq replyTokens.pending
  BY <1>2 DEF Discard, TypeInv, TypeOK, CallTypes
<1>4. QED
  BY <1>1, <1>3, UnchangedServices, UnchangedOwners, NothingAdded

LEMMA FlushKeepsProviders ==
    ASSUME TypeInv, NEW f, NEW s \in ServicesOf(f), NEW shortage, FlushRequests(f, s, shortage)
    PROVE  SameProviders /\ NoNewProviders
<1>1. s \in ServiceNames /\ services[s] # Nil
  BY DEF ServicesOf
<1>2. services' = [services EXCEPT ![s].queue = <<>>]
  BY DEF FlushRequests
<1>3. services[s] \in BoundService
  BY <1>1 DEF TypeInv, TypeOK, CallTypes, BoundService
<1>4. [services[s] EXCEPT !.queue = <<>>] \in BoundService
  BY <1>3, EmptySeq DEF BoundService
<1>5. services'[s] \in BoundService
  BY <1>1, <1>2, <1>4 DEF TypeInv, TypeOK, CallTypes
<1>6. QED
  BY <1>1, <1>2, <1>5, QueueKeepsProviders

LEMMA FlushRequestsServed ==
    ASSUME TypeInv, ServedInv, NEW f \in open, NEW s \in ServicesOf(f), NEW shortage,
           FlushRequests(f, s, shortage),
           UNCHANGED <<open, subTokens, subs, anonymous>>
    PROVE  ServedInv'
<1> DEFINE count == Len(services[s].queue)
           entries(ts) == {[token |-> ts[i], client |-> services[s].queue[i].client,
                            service |-> f, call |-> services[s].queue[i].call,
                            origin |-> services[s].queue[i].origin] : i \in 1 .. count}
<1>1. PICK ts \in Allocate(replyTokens, count) :
         replyTokens' = Create(replyTokens, ts, entries(ts))
  BY DEF FlushRequests
<1>2. SameProviders /\ NoNewProviders
  BY FlushKeepsProviders
<1>3. CallsServed'
  <2>1. \A p \in entries(ts) : p.service = f
    OBVIOUS
  <2> HIDE DEF entries
  <2>2. replyTokens'.pending = replyTokens.pending \union entries(ts)
    BY <1>1 DEF Create
  <2>3. QED
    BY <2>1, <2>2 DEF ServedInv, CallsServed
<1>4. ServicesServed' /\ OwnersProvide'
  BY <1>2, ServicesKept, ProvidersKept, UnchangedOwners
<1>5. QED
  BY <1>3, <1>4 DEF ServedInv, RequestsServed, SubscribersServed

LEMMA InboxNextMessageServed ==
    ASSUME TypeInv, ServedInv, NEW f \in FileIds, NEW shortage, InboxNextMessage(f, shortage)
    PROVE  ServedInv'
<1>1. f \in open /\ UNCHANGED <<open, subTokens, subs, anonymous>>
  BY DEF InboxNextMessage, storeVars, bookkeeping
<1>2. ASSUME UNCHANGED <<services, replyTokens>>
      PROVE  ServedInv'
  BY <1>1, <1>2, UnchangedServices, UnchangedOwners, NothingAdded
<1>3. CASE PopMessage(f)
  BY <1>2, <1>3 DEF PopMessage
<1>4. CASE WouldBlock(f, shortage)
  BY <1>2, <1>4 DEF WouldBlock
<1>5. CASE \E s \in ServicesOf(f) : FlushRequests(f, s, shortage)
  BY <1>1, <1>5, FlushRequestsServed
<1>6. QED
  BY <1>3, <1>4, <1>5 DEF InboxNextMessage

LEMMA StoreCreateServed ==
    ASSUME TypeInv, ServedInv, NEW f, NEW t, NEW public, StoreCreate(f, t, public)
    PROVE  ServedInv'
BY UnchangedServices, UnchangedOwners, NothingAdded DEF StoreCreate, tables, bookkeeping

LEMMA StoreUpdateServed ==
    ASSUME TypeInv, ServedInv, NEW f, NEW t, NEW shortage, StoreUpdate(f, t, shortage)
    PROVE  ServedInv'
BY UnchangedServices, UnchangedOwners, NothingAdded DEF StoreUpdate, tables, bookkeeping

LEMMA AnonymousStoreCreateServed ==
    ASSUME TypeInv, ServedInv, NEW f \in FileIds, NEW s \in ServiceNames,
           AnonymousStoreCreate(f, s)
    PROVE  ServedInv'
<1> DEFINE new == NewAnonymousStore(s, f, nextTimestamp)
<1>1. /\ Provides(f, s)
      /\ anonymous' = [anonymous EXCEPT ![nextAnonymous] = new]
      /\ UNCHANGED <<services, open, replyTokens, subTokens, subs>>
  BY DEF AnonymousStoreCreate, tables, bookkeeping
<1>2. new.service = s /\ new.owner = f
  BY DEF NewAnonymousStore
<1> HIDE DEF new
<1>3. \A a \in AnonymousIds : anonymous'[a] = new \/ anonymous'[a] = anonymous[a]
  BY <1>1 DEF TypeInv, TypeOK, StoreTypes
<1>4. OwnersProvide'
  BY <1>1, <1>2, <1>3 DEF ServedInv, OwnersProvide, Provides
<1>5. QED
  BY <1>1, <1>4 DEF ServedInv, ServicesServed, CallsServed, RequestsServed, SubscribersServed

LEMMA ChangedStoreKeepsOwners ==
    ASSUME TypeInv, NEW a \in AnonymousIds, NEW x, SameOwner(x, anonymous[a]),
           anonymous' = [anonymous EXCEPT ![a] = x]
    PROVE  SameOwners
BY DEF TypeInv, TypeOK, StoreTypes, SameOwners, SameOwner

LEMMA AnonymousStoreUpdateServed ==
    ASSUME TypeInv, ServedInv, NEW f \in FileIds, NEW a \in AnonymousIds, NEW shortage,
           AnonymousStoreUpdate(f, a, shortage)
    PROVE  ServedInv'
<1> DEFINE x == [anonymous[a] EXCEPT !.value = nextTimestamp]
<1>1. /\ anonymous[a] # Nil
      /\ anonymous' = [anonymous EXCEPT ![a] = x]
      /\ UNCHANGED <<services, open, replyTokens, subTokens, subs>>
  BY DEF AnonymousStoreUpdate, tables, bookkeeping
<1>2. SameOwner(x, anonymous[a])
  BY <1>1 DEF TypeInv, TypeOK, StoreTypes, AnonymousStore, SameOwner
<1> HIDE DEF x
<1>3. SameOwners
  BY <1>1, <1>2, ChangedStoreKeepsOwners
<1>4. QED
  BY <1>1, <1>3, UnchangedServices, NothingAdded

LEMMA SubscribePublicServed ==
    ASSUME TypeInv, ServedInv, NEW f, NEW t, NEW id, NEW shortage,
           SubscribePublic(f, t, id, shortage)
    PROVE  ServedInv'
<1> DEFINE new == [file |-> f, id |-> id, target |-> t]
<1>1. /\ f \in open
      /\ subs' = subs \union {new}
      /\ UNCHANGED <<services, open, replyTokens, subTokens, anonymous>>
  BY DEF SubscribePublic, tables, storeVars
<1>2. new.file = f
  OBVIOUS
<1> HIDE DEF new
<1>3. SubscribersServed'
  BY <1>1, <1>2 DEF ServedInv, SubscribersServed
<1>4. OwnersProvide' /\ ServicesServed'
  BY <1>1, UnchangedServices, UnchangedOwners, ProvidersKept, ServicesKept
<1>5. QED
  BY <1>1, <1>3, <1>4 DEF ServedInv, CallsServed, RequestsServed

(* A new request is between open files when it is addressed to an open one. *)
LEMMA AskServed ==
    ASSUME TypeInv, ServedInv, NEW f \in open, NEW service \in open, NEW id, NEW target,
           NEW shortage, Ask(f, id, target, service, shortage), open' = open
    PROVE  RequestsServed'
<1> DEFINE entry(ts) == [token |-> ts[1], client |-> f, service |-> service,
                         id |-> id, target |-> target]
           created(ts) == Create(subTokens, ts, {entry(ts)})
<1>1. PICK ts \in Allocate(subTokens, 1) :
         \/ subTokens' = created(ts)
         \/ subTokens' = Discard(created(ts), {entry(ts)})
  BY DEF Ask
<1>2. entry(ts).client = f /\ entry(ts).service = service
  OBVIOUS
<1> HIDE DEF entry
<1>3. created(ts).pending = subTokens.pending \union {entry(ts)}
  BY DEF Create
<1>4. Discard(created(ts), {entry(ts)}).pending \subseteq created(ts).pending
  BY DEF Discard, Create
<1> HIDE DEF created
<1>5. subTokens'.pending \subseteq subTokens.pending \union {entry(ts)}
  BY <1>1, <1>3, <1>4
<1>6. QED
  BY <1>2, <1>5 DEF ServedInv, RequestsServed

LEMMA SubscribePrivateServed ==
    ASSUME TypeInv, ServedInv, NEW f \in FileIds, NEW t \in Paths, NEW id, NEW shortage,
           SubscribePrivate(f, t, id, shortage)
    PROVE  ServedInv'
<1>1. /\ f \in open
      /\ stores[t] # Nil
      /\ Ask(f, id, t, services[t.service].file, shortage)
      /\ UNCHANGED <<services, open, replyTokens, subs, anonymous>>
  BY DEF SubscribePrivate, storeVars
<1>2. services[t.service].file \in open
  <2>1. t.service \in ServiceNames
    BY DEF Paths, NamedTargets
  <2>2. services[t.service] \in BoundService
    BY <1>1 DEF TypeInv, StoresAreProvided
  <2>3. services[t.service] # Nil
    BY <2>2, NilAssumption DEF BoundService
  <2>4. QED
    BY <2>1, <2>3 DEF ServedInv, ServicesServed
<1>3. RequestsServed'
  BY <1>1, <1>2, AskServed
<1>4. OwnersProvide' /\ ServicesServed'
  BY <1>1, UnchangedServices, UnchangedOwners, ProvidersKept, ServicesKept
<1>5. QED
  BY <1>1, <1>3, <1>4 DEF ServedInv, CallsServed, SubscribersServed

LEMMA AnonymousStoreSubscribeServed ==
    ASSUME TypeInv, ServedInv, NEW f \in FileIds, NEW a \in AnonymousIds, NEW id,
           NEW shortage, AnonymousStoreSubscribe(f, a, id, shortage)
    PROVE  ServedInv'
<1> DEFINE x == IF anonymous[a].owner \in shortage
                THEN Decrement(IncrementPending(anonymous[a]), 1, 0)
                ELSE IncrementPending(anonymous[a])
<1>1. /\ f \in open
      /\ anonymous[a] # Nil
      /\ Ask(f, id, Anonymous(a), anonymous[a].owner, shortage)
      /\ anonymous' = [anonymous EXCEPT ![a] = x]
      /\ UNCHANGED <<services, open, replyTokens, subs>>
  BY DEF AnonymousStoreSubscribe
<1>2. anonymous[a].owner \in open
  BY <1>1, OwnerIsOpen
<1>3. RequestsServed'
  BY <1>1, <1>2, AskServed
<1>4. SameOwner(x, anonymous[a])
  <2>1. anonymous[a] \in AStore
    BY <1>1 DEF TypeInv, TypeOK, StoreTypes, AStore
  <2>2. IncrementPending(anonymous[a]) \in AStore
    BY <2>1, CountingTypes
  <2>3. SameOwner(IncrementPending(anonymous[a]), anonymous[a])
    BY <1>1, <2>1, CountingKeepsOwner DEF MaybeAStore
  <2>4. SameOwner(Decrement(IncrementPending(anonymous[a]), 1, 0),
                  IncrementPending(anonymous[a]))
    BY <2>2, CountingKeepsOwner DEF MaybeAStore
  <2>5. QED
    BY <2>3, <2>4 DEF SameOwner
<1> HIDE DEF x
<1>5. SameOwners
  BY <1>1, <1>4, ChangedStoreKeepsOwners
<1>6. OwnersProvide' /\ ServicesServed'
  BY <1>1, <1>5, UnchangedServices, ProvidersKept, ServicesKept
<1>7. QED
  BY <1>1, <1>3, <1>6 DEF ServedInv, CallsServed, SubscribersServed

(* What a verdict may add: a subscription of the client that asked. *)
VerdictServed(p) ==
    /\ \A s \in subs' : s \in subs \/ s.file = p.client
    /\ SameOwners

LEMMA StoreSubscriptionReplyServed ==
    ASSUME TypeInv, ServedInv, NEW f \in FileIds, NEW m, NEW accepted \in BOOLEAN,
           NEW shortage, StoreSubscriptionReply(f, m, accepted, shortage)
    PROVE  ServedInv'
<1> DEFINE consumed == Consumable(subTokens, m.token, f)
<1>1. UNCHANGED <<services, open, replyTokens>>
  BY DEF StoreSubscriptionReply, bookkeeping
<1>2. subTokens'.pending \subseteq subTokens.pending
  <2>1. subTokens' = subTokens \/ subTokens' = Discard(subTokens, consumed)
    BY DEF StoreSubscriptionReply
  <2>2. QED
    BY <2>1 DEF Discard, TypeInv, TypeOK, StoreTypes
<1>3. SubscribersServed' /\ SameOwners
  <2>1. ASSUME UNCHANGED <<subs, anonymous>>
        PROVE  SubscribersServed' /\ SameOwners
    BY <1>1, <2>1, UnchangedOwners DEF ServedInv, SubscribersServed
  <2>2. ASSUME NEW p \in subTokens.pending, VerdictServed(p)
        PROVE  SubscribersServed' /\ SameOwners
    BY <1>1, <2>2 DEF VerdictServed, ServedInv, SubscribersServed, RequestsServed
  <2>3. ASSUME NEW p \in subTokens.pending, AcceptNamed(p, shortage)
        PROVE  VerdictServed(p)
    <3> DEFINE new == [file |-> p.client, id |-> p.id, target |-> p.target]
    <3>1. anonymous' = anonymous /\ (subs' = subs \/ subs' = subs \union {new})
      BY <2>3 DEF AcceptNamed
    <3>2. new.file = p.client
      OBVIOUS
    <3> HIDE DEF new
    <3>3. QED
      BY <3>1, <3>2, UnchangedOwners DEF VerdictServed
  <2>4. ASSUME NEW p \in subTokens.pending, IsAnonymous(p.target), AcceptAnonymous(p, shortage)
        PROVE  VerdictServed(p)
    <3> DEFINE a == p.target.anonymous
               new == [file |-> p.client, id |-> p.id, target |-> p.target]
    <3>1. a \in AnonymousIds
      BY <2>4, TargetTypes DEF TypeInv, TypeOK, StoreTypes, PendingSubscription
    <3>2. CASE anonymous[a] = Nil
      BY <2>4, <3>2, UnchangedOwners DEF AcceptAnonymous, VerdictServed
    <3>3. CASE anonymous[a] # Nil
      <4>1. PICK x \in {AcceptPending(anonymous[a]),
                        Decrement(AcceptPending(anonymous[a]), 0, 1)} :
               anonymous' = [anonymous EXCEPT ![a] = x]
        BY <2>4, <3>3 DEF AcceptAnonymous
      <4>2. anonymous[a] \in AStore
        BY <3>1, <3>3 DEF TypeInv, TypeOK, StoreTypes, AStore
      <4>3. AcceptPending(anonymous[a]) \in AStore
        BY <4>2, CountingTypes
      <4>4. SameOwner(AcceptPending(anonymous[a]), anonymous[a])
        BY <3>3, <4>2, CountingKeepsOwner DEF MaybeAStore
      <4>5. SameOwner(Decrement(AcceptPending(anonymous[a]), 0, 1),
                      AcceptPending(anonymous[a]))
        BY <4>3, CountingKeepsOwner DEF MaybeAStore
      <4>6. SameOwner(x, anonymous[a])
        BY <4>4, <4>5 DEF SameOwner
      <4>7. SameOwners
        BY <3>1, <4>1, <4>6, ChangedStoreKeepsOwners
      <4>8. subs' = subs \/ subs' = subs \union {new}
        BY <2>4, <3>3 DEF AcceptAnonymous
      <4>9. new.file = p.client
        OBVIOUS
      <4> HIDE DEF new
      <4>10. QED
        BY <4>7, <4>8, <4>9 DEF VerdictServed
    <3>4. QED
      BY <3>2, <3>3
  <2>5. ASSUME NEW p \in subTokens.pending, Reject(p, shortage)
        PROVE  VerdictServed(p)
    <3> DEFINE a == p.target.anonymous
    <3>1. subs' = subs
      BY <2>5 DEF Reject
    <3>2. SameOwners
      <4>1. CASE ~IsAnonymous(p.target)
        BY <2>5, <4>1, UnchangedOwners DEF Reject
      <4>2. CASE IsAnonymous(p.target)
        <5>1. a \in AnonymousIds
          BY <4>2, TargetTypes DEF TypeInv, TypeOK, StoreTypes, PendingSubscription
        <5>2. anonymous[a] \in MaybeAStore
          BY <5>1 DEF TypeInv, TypeOK, StoreTypes, MaybeAStore, AStore
        <5>3. SameOwner(Decrement(anonymous[a], 1, 0), anonymous[a])
          BY <5>2, CountingKeepsOwner
        <5>4. anonymous' = [anonymous EXCEPT ![a] = Decrement(anonymous[a], 1, 0)]
          BY <2>5, <4>2 DEF Reject
        <5>5. QED
          BY <5>1, <5>3, <5>4, ChangedStoreKeepsOwners
      <4>3. QED
        BY <4>1, <4>2
    <3>3. QED
      BY <3>1, <3>2 DEF VerdictServed
  <2>6. consumed \subseteq subTokens.pending
    BY DEF Consumable
  <2>7. \/ UNCHANGED <<subs, anonymous>>
        \/ \E p \in consumed :
              \/ AcceptNamed(p, shortage)
              \/ IsAnonymous(p.target) /\ AcceptAnonymous(p, shortage)
              \/ Reject(p, shortage)
    BY DEF StoreSubscriptionReply
  <2>8. QED
    BY <2>1, <2>2, <2>3, <2>4, <2>5, <2>6, <2>7
<1>4. ServicesServed' /\ OwnersProvide'
  BY <1>1, <1>3, UnchangedServices, ServicesKept, ProvidersKept
<1>5. QED
  BY <1>1, <1>2, <1>3, <1>4 DEF ServedInv, CallsServed, RequestsServed

LEMMA StoreUnsubscribeServed ==
    ASSUME TypeInv, ServedInv, NEW f \in FileIds, NEW id, NEW shortage,
           StoreUnsubscribe(f, id, shortage)
    PROVE  ServedInv'
<1>1. UNCHANGED <<services, open, replyTokens, subTokens>>
  BY DEF StoreUnsubscribe, tables, bookkeeping
<1>2. PICK s \in OwnSubscription(subs, f, id) :
         /\ subs' = subs \ {s}
         /\ IF IsAnonymous(s.target) /\ anonymous[s.target.anonymous] # Nil
            THEN anonymous' = [anonymous EXCEPT ![s.target.anonymous] =
                                 Decrement(anonymous[s.target.anonymous], 0, 1)]
            ELSE anonymous' = anonymous
  BY DEF StoreUnsubscribe
<1>3. SameOwners
  <2> DEFINE a == s.target.anonymous
  <2>1. CASE anonymous' = anonymous
    BY <2>1, UnchangedOwners
  <2>2. CASE IsAnonymous(s.target) /\ anonymous' = [anonymous EXCEPT ![a] = Decrement(anonymous[a], 0, 1)]
    <3>1. a \in AnonymousIds
      BY <2>2, TargetTypes DEF OwnSubscription, TypeInv, TypeOK, StoreTypes, Subscription
    <3>2. anonymous[a] \in MaybeAStore
      BY <3>1 DEF TypeInv, TypeOK, StoreTypes, MaybeAStore, AStore
    <3>3. SameOwner(Decrement(anonymous[a], 0, 1), anonymous[a])
      BY <3>2, CountingKeepsOwner
    <3>4. QED
      BY <2>2, <3>1, <3>3, ChangedStoreKeepsOwners
  <2>3. QED
    BY <1>2, <2>1, <2>2
<1>4. QED
  BY <1>1, <1>2, <1>3, UnchangedServices, NothingAdded

(* What is left of an anonymous store after a connection closed. *)
LEMMA AnonymousLeftByClose ==
    ASSUME TypeInv, NEW f \in FileIds, NEW a \in AnonymousIds,
           AnonymousAfterClose(f)[a] # Nil
    PROVE  ~Gone(f, a) /\ SameOwner(AnonymousAfterClose(f)[a], anonymous[a])
<1> DEFINE requests == {p \in EntriesOf(subTokens, f) : p.target = Anonymous(a)}
           followers == {s \in OwnSubscriptions(f) : s.target = Anonymous(a)}
<1>1. AnonymousAfterClose(f)[a] =
         IF Gone(f, a) THEN Nil
         ELSE Decrement(anonymous[a], Cardinality(requests), Cardinality(followers))
  BY DEF AnonymousAfterClose
<1>2. anonymous[a] \in MaybeAStore
  BY DEF TypeInv, TypeOK, StoreTypes, MaybeAStore, AStore
<1>3. Cardinality(requests) \in Nat
  <2>1. requests \in SUBSET subTokens.pending
    BY DEF EntriesOf
  <2>2. QED
    BY <2>1, FS_Subset, FS_CardinalityType DEF TypeInv, Finite
<1>4. Cardinality(followers) \in Nat
  <2>1. followers \in SUBSET subs
    BY DEF OwnSubscriptions
  <2>2. QED
    BY <2>1, FS_Subset, FS_CardinalityType DEF TypeInv, Finite
<1> HIDE DEF requests, followers
<1>5. QED
  BY <1>1, <1>2, <1>3, <1>4, CountingKeepsOwner

LEMMA CloseServed ==
    ASSUME TypeInv, ServedInv, NEW f \in FileIds, NEW shortage, Close(f, shortage)
    PROVE  ServedInv'
<1>1. /\ open' = open \ {f}
      /\ services' = [s \in ServiceNames |-> IF s \in ServicesOf(f) THEN Nil ELSE services[s]]
      /\ replyTokens' = Discard(replyTokens, EntriesOf(replyTokens, f))
      /\ subTokens' = Discard(subTokens, EntriesOf(subTokens, f))
      /\ subs' \subseteq subs \ OwnSubscriptions(f)
      /\ anonymous' = AnonymousAfterClose(f)
  BY DEF Close
<1>2. ServicesServed'
  <2>1. ASSUME NEW s \in ServiceNames, services'[s] # Nil
        PROVE  services'[s] = services[s] /\ services[s].file # f
    BY <1>1, <2>1 DEF ServicesOf
  <2>2. QED
    BY <1>1, <2>1 DEF ServedInv, ServicesServed
<1>3. CallsServed'
  <2>1. replyTokens'.pending = replyTokens.pending \ EntriesOf(replyTokens, f)
    BY <1>1 DEF Discard, TypeInv, TypeOK, CallTypes
  <2>2. QED
    BY <1>1, <2>1 DEF EntriesOf, ServedInv, CallsServed
<1>4. RequestsServed'
  <2>1. subTokens'.pending = subTokens.pending \ EntriesOf(subTokens, f)
    BY <1>1 DEF Discard, TypeInv, TypeOK, StoreTypes
  <2>2. QED
    BY <1>1, <2>1 DEF EntriesOf, ServedInv, RequestsServed
<1>5. SubscribersServed'
  BY <1>1 DEF OwnSubscriptions, ServedInv, SubscribersServed
<1>6. OwnersProvide'
  <2> SUFFICES ASSUME NEW a \in AnonymousIds, anonymous'[a] # Nil
               PROVE  /\ services'[anonymous'[a].service] # Nil
                      /\ services'[anonymous'[a].service].file = anonymous'[a].owner
    BY DEF OwnersProvide
  <2>1. ~Gone(f, a) /\ SameOwner(anonymous'[a], anonymous[a])
    BY <1>1, AnonymousLeftByClose
  <2>2. anonymous[a] # Nil /\ anonymous[a].service \notin ServicesOf(f)
    BY <2>1 DEF SameOwner, Gone
  <2>3. services'[anonymous[a].service] = services[anonymous[a].service]
    BY <1>1, <2>2, OwnerIsOpen
  <2>4. QED
    BY <2>1, <2>2, <2>3 DEF SameOwner, ServedInv, OwnersProvide
<1>7. QED
  BY <1>2, <1>3, <1>4, <1>5, <1>6 DEF ServedInv

LEMMA NextServed == TypeInv /\ ServedInv /\ [Next]_vars => ServedInv'
<1> SUFFICES ASSUME TypeInv, ServedInv, [Next]_vars
             PROVE  ServedInv'
  OBVIOUS
<1>1. CASE UNCHANGED vars
  BY <1>1, StutterServed
<1>2. ASSUME NEW f \in FileIds, Answer(f)
      PROVE  ServedInv'
  BY <1>2, FunctionCallReplyServed, StoreSubscriptionReplyServed DEF Answer
<1>3. ASSUME NEW f \in FileIds, Write(f)
      PROVE  ServedInv'
  BY <1>3, StoreCreateServed, StoreUpdateServed, AnonymousStoreCreateServed,
     AnonymousStoreUpdateServed DEF Write
<1>4. ASSUME NEW f \in FileIds, Subscribe(f)
      PROVE  ServedInv'
  BY <1>4, SubscribePublicServed, SubscribePrivateServed, AnonymousStoreSubscribeServed,
     StoreUnsubscribeServed DEF Subscribe
<1>5. QED
  BY <1>1, <1>2, <1>3, <1>4, OpenServed, BindServiceServed, FunctionCallServed,
     InboxNextMessageServed, CloseServed DEF Next

LEMMA ServedInvariant == Spec => []ServedInv
<1>1. Init => ServedInv
  BY InitServed
<1>2. TypeInv /\ ServedInv /\ [Next]_vars => ServedInv'
  BY NextServed
<1>3. QED
  BY <1>1, <1>2, TypeInvariant, PTL DEF Spec

(* State::cleanup forgets no table: what the kernel keeps never depends on *)
(* a connection that was closed.                                           *)
THEOREM NothingOutlivesItsConnection == Spec => []ServedByOpenFiles
<1>1. TypeInv /\ ServedInv => ServedByOpenFiles
  BY ServedInvSuffices
<1>2. QED
  BY <1>1, TypeInvariant, ServedInvariant, PTL
-------------------------------------------------------------------------------
(***************************************************************************)
(* The counters of the anonymous stores, and what subscriptions hang on.   *)
(*                                                                         *)
(* That a subscription's store is there is not inductive: an anonymous     *)
(* store goes when its two counters reach 0, so the counters must be       *)
(* exact; and they are, because a token stands for one request (so one     *)
(* verdict takes one request away), a new id is that of no store before    *)
(* (so nobody waits for it yet), and the file asked for a verdict is the   *)
(* provider (so that, when it closes, no request to its stores is left).   *)
(***************************************************************************)
Requests(a) == {p \in subTokens.pending : p.target = Anonymous(a)}
Followers(a) == SubscribersOf(subs, Anonymous(a))

CountIsExact(x, requests, followers) ==
    IF x = Nil THEN requests = {} /\ followers = {}
    ELSE /\ x.pending = Cardinality(requests)
         /\ x.accepted = Cardinality(followers)
         /\ x.hasEverHadSubscription => requests # {} \/ followers # {}

CountsAreExact ==
    \A a \in AnonymousIds : CountIsExact(anonymous[a], Requests(a), Followers(a))
RequestsAreUnique == \A p, q \in subTokens.pending : p.token = q.token => p = q
NewIdsAreFree == \A a \in AnonymousIds : a >= nextAnonymous => anonymous[a] = Nil
ProvidersAreAsked == \A p \in subTokens.pending : Provides(p.service, ServiceOf(p.target))
NamedStoresExist ==
    /\ \A s \in subs : ~IsAnonymous(s.target) => stores[s.target] # Nil
    /\ \A p \in subTokens.pending : ~IsAnonymous(p.target) => stores[p.target] # Nil

StoreInv ==
    /\ CountsAreExact
    /\ RequestsAreUnique
    /\ NewIdsAreFree
    /\ ProvidersAreAsked
    /\ NamedStoresExist

(* Counting up and down keeps a count exact. *)
LEMMA CountedDown ==
    ASSUME NEW x \in MaybeAStore, NEW R, IsFiniteSet(R), NEW F, IsFiniteSet(F),
           CountIsExact(x, R, F), NEW Q \in SUBSET R, NEW G \in SUBSET F
    PROVE  CountIsExact(Decrement(x, Cardinality(Q), Cardinality(G)), R \ Q, F \ G)
<1> DEFINE m == Cardinality(Q)
           n == Cardinality(G)
<1>1. /\ IsFiniteSet(Q) /\ IsFiniteSet(G)
      /\ m \in Nat /\ n \in Nat /\ Cardinality(R) \in Nat /\ Cardinality(F) \in Nat
      /\ m <= Cardinality(R) /\ n <= Cardinality(F)
  BY FS_Subset, FS_CardinalityType
<1>2. /\ IsFiniteSet(R \ Q) /\ Cardinality(R \ Q) = Cardinality(R) - m
      /\ IsFiniteSet(F \ G) /\ Cardinality(F \ G) = Cardinality(F) - n
  <2>1. R \cap Q = Q /\ F \cap G = G
    OBVIOUS
  <2>2. /\ IsFiniteSet(R \ Q)
        /\ Cardinality(R \ Q) = Cardinality(R) - Cardinality(R \cap Q)
    BY FS_Difference, Zenon
  <2>3. /\ IsFiniteSet(F \ G)
        /\ Cardinality(F \ G) = Cardinality(F) - Cardinality(F \cap G)
    BY FS_Difference, Zenon
  <2>4. QED
    BY <2>1, <2>2, <2>3
<1>3. /\ Cardinality(R \ Q) = 0 <=> R \ Q = {}
      /\ Cardinality(F \ G) = 0 <=> F \ G = {}
  BY <1>2, FS_EmptySet
<1>4. (m = 0 => Q = {}) /\ (n = 0 => G = {})
  BY <1>1, FS_EmptySet
<1> HIDE DEF m, n
<1>5. CASE x = Nil
  BY <1>5 DEF CountIsExact, Decrement
<1>6. CASE x # Nil /\ m = 0 /\ n = 0
  <2>1. R \ Q = R /\ F \ G = F
    BY <1>4, <1>6
  <2>2. Decrement(x, m, n) = x
    BY <1>6 DEF Decrement
  <2>3. QED
    BY <2>1, <2>2 DEF m, n
<1>7. CASE x # Nil /\ ~(m = 0 /\ n = 0)
  <2> DEFINE y == [x EXCEPT !.pending = SaturatingSub(@, m), !.accepted = SaturatingSub(@, n)]
  <2>1. /\ x \in AStore
        /\ x.pending = Cardinality(R) /\ x.accepted = Cardinality(F)
    BY <1>7 DEF MaybeAStore, CountIsExact
  <2>2. /\ SaturatingSub(x.pending, m) = Cardinality(R) - m
        /\ SaturatingSub(x.accepted, n) = Cardinality(F) - n
    BY <1>1, <2>1 DEF SaturatingSub
  <2>3. /\ y.pending = Cardinality(R \ Q) /\ y.accepted = Cardinality(F \ G)
        /\ y \in AStore
    <3>1. y = [x EXCEPT !.pending = Cardinality(R \ Q), !.accepted = Cardinality(F \ G)]
      BY <1>2, <2>2
    <3>2. Cardinality(R \ Q) \in Nat /\ Cardinality(F \ G) \in Nat
      BY <1>2, FS_CardinalityType
    <3>3. QED
      BY <2>1, <3>1, <3>2 DEF AStore, AnonymousStore
  <2>4. Decrement(x, m, n) = CleanupIfUnused(y)
    BY <1>7 DEF Decrement
  <2>5. y # Nil
    BY <2>3, NilAssumption DEF AStore
  <2> HIDE DEF y
  <2>6. CountIsExact(CleanupIfUnused(y), R \ Q, F \ G)
    <3>1. CASE y.hasEverHadSubscription /\ y.pending = 0 /\ y.accepted = 0
      BY <1>3, <2>3, <3>1 DEF CleanupIfUnused, CountIsExact
    <3>2. CASE ~(y.hasEverHadSubscription /\ y.pending = 0 /\ y.accepted = 0)
      BY <1>3, <2>3, <2>5, <3>2 DEF CleanupIfUnused, CountIsExact
    <3>3. QED
      BY <3>1, <3>2
  <2>7. QED
    BY <2>4, <2>6 DEF m, n
<1>8. QED
  BY <1>5, <1>6, <1>7

LEMMA CountedUp ==
    ASSUME NEW x \in AStore, NEW R, IsFiniteSet(R), NEW F, IsFiniteSet(F),
           CountIsExact(x, R, F), NEW p
    PROVE  /\ p \notin R => CountIsExact(IncrementPending(x), R \union {p}, F)
           /\ \A s : p \in R /\ s \notin F =>
                 CountIsExact(AcceptPending(x), R \ {p}, F \union {s})
<1>1. x # Nil
  BY NilAssumption DEF AStore
<1>2. Cardinality(R) \in Nat /\ Cardinality(F) \in Nat
  BY FS_CardinalityType
<1>3. ASSUME p \notin R
      PROVE  CountIsExact(IncrementPending(x), R \union {p}, F)
  <2>1. Cardinality(R \union {p}) = Cardinality(R) + 1
    BY <1>3, FS_AddElement
  <2>2. IncrementPending(x) \in AStore
    BY CountingTypes
  <2>3. /\ IncrementPending(x).pending = Cardinality(R) + 1
        /\ IncrementPending(x).accepted = Cardinality(F)
    BY <1>1 DEF AStore, AnonymousStore, IncrementPending, CountIsExact
  <2>4. IncrementPending(x) # Nil
    BY <2>2, NilAssumption DEF AStore
  <2>5. QED
    BY <2>1, <2>3, <2>4 DEF CountIsExact
<1>4. ASSUME NEW s, p \in R, s \notin F
      PROVE  CountIsExact(AcceptPending(x), R \ {p}, F \union {s})
  <2>1. /\ Cardinality(F \union {s}) = Cardinality(F) + 1
        /\ Cardinality(R \ {p}) = Cardinality(R) - 1
        /\ Cardinality(R) # 0
    BY <1>4, FS_AddElement, FS_RemoveElement, FS_EmptySet
  <2>2. AcceptPending(x) \in AStore
    BY CountingTypes
  <2>3. /\ AcceptPending(x).pending = Cardinality(R) - 1
        /\ AcceptPending(x).accepted = Cardinality(F) + 1
    BY <1>1, <1>2, <2>1 DEF AStore, AnonymousStore, AcceptPending, SaturatingSub, CountIsExact
  <2>4. AcceptPending(x) # Nil
    BY <2>2, NilAssumption DEF AStore
  <2>5. QED
    BY <2>1, <2>3, <2>4 DEF CountIsExact
<1>5. QED
  BY <1>3, <1>4

(* Accepted, and taken back because the client cannot be subscribed. *)
LEMMA AcceptedInVain ==
    ASSUME NEW x \in AStore, NEW R, IsFiniteSet(R), NEW F, IsFiniteSet(F),
           CountIsExact(x, R, F), NEW p \in R
    PROVE  CountIsExact(Decrement(AcceptPending(x), 0, 1), R \ {p}, F)
<1>1. PICK s : s \notin F
  BY NoSetContainsEverything
<1>2. CountIsExact(AcceptPending(x), R \ {p}, F \union {s})
  BY <1>1, CountedUp
<1>3. IsFiniteSet(R \ {p}) /\ IsFiniteSet(F \union {s})
  BY FS_RemoveElement, FS_AddElement
<1>4. AcceptPending(x) \in MaybeAStore
  BY CountingTypes DEF MaybeAStore
<1>5. Cardinality({}) = 0 /\ Cardinality({s}) = 1
  BY FS_EmptySet, FS_Singleton
<1>6. CountIsExact(Decrement(AcceptPending(x), Cardinality({}), Cardinality({s})),
                   (R \ {p}) \ {}, (F \union {s}) \ {s})
  BY <1>2, <1>3, <1>4, CountedDown
<1>7. (R \ {p}) \ {} = R \ {p} /\ (F \union {s}) \ {s} = F
  BY <1>1
<1>8. QED
  BY <1>5, <1>6, <1>7

(* What a command adds to the requests or subscriptions, or takes away. *)
LEMMA RequestsAfter ==
    ASSUME NEW e, NEW a
    PROVE  /\ subTokens'.pending = subTokens.pending => Requests(a)' = Requests(a)
           /\ subTokens'.pending = subTokens.pending \union {e} =>
                 Requests(a)' = IF e.target = Anonymous(a) THEN Requests(a) \union {e}
                                ELSE Requests(a)
           /\ subTokens'.pending = subTokens.pending \ {e} =>
                 Requests(a)' = IF e.target = Anonymous(a) THEN Requests(a) \ {e}
                                ELSE Requests(a)
BY DEF Requests

LEMMA FollowersAfter ==
    ASSUME NEW s, NEW a
    PROVE  /\ subs' = subs => Followers(a)' = Followers(a)
           /\ subs' = subs \union {s} =>
                 Followers(a)' = IF s.target = Anonymous(a) THEN Followers(a) \union {s}
                                 ELSE Followers(a)
           /\ subs' = subs \ {s} =>
                 Followers(a)' = IF s.target = Anonymous(a) THEN Followers(a) \ {s}
                                 ELSE Followers(a)
BY DEF Followers, SubscribersOf

LEMMA FinitelyMany ==
    ASSUME TypeInv, NEW a
    PROVE  IsFiniteSet(Requests(a)) /\ IsFiniteSet(Followers(a))
<1>1. Requests(a) \in SUBSET subTokens.pending /\ Followers(a) \in SUBSET subs
  BY DEF Requests, Followers, SubscribersOf
<1>2. QED
  BY <1>1, FS_Subset DEF TypeInv, Finite

LEMMA DifferentStores ==
    /\ \A a, b : Anonymous(a) = Anonymous(b) => a = b
    /\ \A a : IsAnonymous(Anonymous(a))
    /\ \A t \in Paths : ~IsAnonymous(t)
BY DEF Anonymous, IsAnonymous, Paths, NamedTargets

SameUsers(a) == Requests(a)' = Requests(a) /\ Followers(a)' = Followers(a)

(* One store is counted, the others are left alone. *)
LEMMA OneStoreCounted ==
    ASSUME TypeInv, CountsAreExact, NEW a \in AnonymousIds, NEW x,
           anonymous' = [anonymous EXCEPT ![a] = x],
           \A b \in AnonymousIds \ {a} : SameUsers(b),
           CountIsExact(x, Requests(a)', Followers(a)')
    PROVE  CountsAreExact'
<1> SUFFICES ASSUME NEW b \in AnonymousIds
             PROVE  CountIsExact(anonymous'[b], Requests(b)', Followers(b)')
  BY DEF CountsAreExact, CountIsExact
<1>1. anonymous \in [AnonymousIds -> MaybeAStore]
  BY DEF TypeInv, TypeOK, StoreTypes, MaybeAStore, AStore
<1>2. CASE b = a
  BY <1>1, <1>2
<1>3. CASE b # a
  <2>1. anonymous'[b] = anonymous[b]
    BY <1>1, <1>3
  <2>2. Requests(b)' = Requests(b) /\ Followers(b)' = Followers(b)
    BY <1>3 DEF SameUsers
  <2>3. CountIsExact(anonymous[b], Requests(b), Followers(b))
    BY DEF CountsAreExact
  <2>4. QED
    BY <2>1, <2>2, <2>3
<1>4. QED
  BY <1>2, <1>3

LEMMA NoStoreCounted ==
    ASSUME CountsAreExact, anonymous' = anonymous, \A a \in AnonymousIds : SameUsers(a)
    PROVE  CountsAreExact'
<1> SUFFICES ASSUME NEW a \in AnonymousIds
             PROVE  CountIsExact(anonymous'[a], Requests(a)', Followers(a)')
  BY DEF CountsAreExact, CountIsExact
<1>1. Requests(a)' = Requests(a) /\ Followers(a)' = Followers(a)
  BY DEF SameUsers
<1>2. CountIsExact(anonymous[a], Requests(a), Followers(a))
  BY DEF CountsAreExact
<1>3. QED
  BY <1>1, <1>2

(* Nobody waits for a store that is not there, or follows it. *)
LEMMA UsedStoresExist ==
    ASSUME TypeInv, CountsAreExact
    PROVE  /\ \A p \in subTokens.pending : IsAnonymous(p.target) =>
                 p.target.anonymous \in AnonymousIds /\ anonymous[p.target.anonymous] # Nil
           /\ \A s \in subs : IsAnonymous(s.target) =>
                 s.target.anonymous \in AnonymousIds /\ anonymous[s.target.anonymous] # Nil
<1>1. ASSUME NEW p \in subTokens.pending, IsAnonymous(p.target)
      PROVE  p.target.anonymous \in AnonymousIds /\ anonymous[p.target.anonymous] # Nil
  <2>1. /\ p.target.anonymous \in AnonymousIds
        /\ p.target = Anonymous(p.target.anonymous)
    BY <1>1, TargetTypes DEF TypeInv, TypeOK, StoreTypes, PendingSubscription
  <2>2. p \in Requests(p.target.anonymous)
    BY <2>1 DEF Requests
  <2>3. QED
    BY <2>1, <2>2 DEF CountsAreExact, CountIsExact
<1>2. ASSUME NEW s \in subs, IsAnonymous(s.target)
      PROVE  s.target.anonymous \in AnonymousIds /\ anonymous[s.target.anonymous] # Nil
  <2>1. /\ s.target.anonymous \in AnonymousIds
        /\ s.target = Anonymous(s.target.anonymous)
    BY <1>2, TargetTypes DEF TypeInv, TypeOK, StoreTypes, Subscription
  <2>2. s \in Followers(s.target.anonymous)
    BY <2>1 DEF Followers, SubscribersOf
  <2>3. QED
    BY <2>1, <2>2 DEF CountsAreExact, CountIsExact
<1>3. QED
  BY <1>1, <1>2

(* A store keeps its service as long as it is there. *)
SameServices ==
    \A a \in AnonymousIds :
        anonymous[a] # Nil /\ anonymous'[a] # Nil =>
            anonymous'[a].service = anonymous[a].service

LEMMA SameOwnersSameServices == SameOwners => SameServices
BY DEF SameOwners, SameOwner, SameServices

LEMMA ServiceOfRequest ==
    ASSUME TypeInv, StoreInv, NEW p \in subTokens.pending
    PROVE  ServiceOf(p.target) \in ServiceNames
<1>1. p.target \in Targets
  BY DEF TypeInv, TypeOK, StoreTypes, PendingSubscription
<1>2. CASE ~IsAnonymous(p.target)
  BY <1>1, <1>2, TargetTypes DEF ServiceOf
<1>3. CASE IsAnonymous(p.target)
  <2>1. p.target.anonymous \in AnonymousIds /\ anonymous[p.target.anonymous] # Nil
    BY <1>3, UsedStoresExist DEF StoreInv
  <2>2. anonymous[p.target.anonymous] \in AStore
    BY <2>1 DEF TypeInv, TypeOK, StoreTypes, AStore
  <2>3. QED
    BY <1>3, <2>2 DEF ServiceOf, AStore, AnonymousStore
<1>4. QED
  BY <1>2, <1>3

(* A request that stays in the table stays at the provider. *)
LEMMA ProviderStillAsked ==
    ASSUME TypeInv, TypeInv', StoreInv, CountsAreExact', SameProviders, SameServices,
           NEW p \in subTokens.pending, p \in subTokens'.pending
    PROVE  Provides(p.service, ServiceOf(p.target))'
<1>1. ServiceOf(p.target)' = ServiceOf(p.target)
  <2>1. CASE ~IsAnonymous(p.target)
    BY <2>1 DEF ServiceOf
  <2>2. CASE IsAnonymous(p.target)
    <3>1. p.target.anonymous \in AnonymousIds /\ anonymous[p.target.anonymous] # Nil
      BY <2>2, UsedStoresExist DEF StoreInv
    <3>2. anonymous'[p.target.anonymous] # Nil
      <4>1. p \in Requests(p.target.anonymous)'
        BY <2>2, TargetTypes DEF TypeInv, TypeOK, StoreTypes, PendingSubscription, Requests
      <4>2. QED
        BY <3>1, <4>1 DEF CountsAreExact, CountIsExact
    <3>3. QED
      BY <2>2, <3>1, <3>2 DEF SameServices, ServiceOf
  <2>3. QED
    BY <2>1, <2>2
<1>2. Provides(p.service, ServiceOf(p.target)) /\ ServiceOf(p.target) \in ServiceNames
  BY ServiceOfRequest DEF StoreInv, ProvidersAreAsked
<1>3. QED
  BY <1>1, <1>2 DEF Provides, SameProviders

StoresKept == \A t \in Paths : stores[t] # Nil => stores'[t] # Nil

(* What most commands do: no request is added, and no named store goes;    *)
(* what remains is to count.                                               *)
LEMMA NoRequestAdded ==
    ASSUME TypeInv, TypeInv', StoreInv, SameProviders, SameServices, StoresKept,
           CountsAreExact', NewIdsAreFree',
           subTokens'.pending \subseteq subTokens.pending,
           \A s \in subs' \ subs :
               ~IsAnonymous(s.target) => s.target \in Paths /\ stores[s.target] # Nil
    PROVE  StoreInv'
<1>1. RequestsAreUnique'
  BY DEF StoreInv, RequestsAreUnique
<1>2. ProvidersAreAsked'
  BY ProviderStillAsked DEF ProvidersAreAsked
<1>3. NamedStoresExist'
  <2>1. \A p \in subTokens.pending : ~IsAnonymous(p.target) => p.target \in Paths
    BY TargetTypes DEF TypeInv, TypeOK, StoreTypes, PendingSubscription
  <2>2. \A s \in subs : ~IsAnonymous(s.target) => s.target \in Paths
    BY TargetTypes DEF TypeInv, TypeOK, StoreTypes, Subscription
  <2>3. QED
    BY <2>1, <2>2 DEF StoreInv, NamedStoresExist, StoresKept
<1>4. QED
  BY <1>1, <1>2, <1>3 DEF StoreInv

LEMMA OnlyValuesChanged ==
    ASSUME TypeInv, TypeInv', StoreInv, SameProviders, StoresKept,
           UNCHANGED <<subTokens, subs, anonymous, nextAnonymous>>
    PROVE  StoreInv'
<1>1. \A a \in AnonymousIds : SameUsers(a)
  BY RequestsAfter, FollowersAfter DEF SameUsers
<1>2. CountsAreExact'
  BY <1>1, NoStoreCounted DEF StoreInv
<1>3. NewIdsAreFree' /\ SameServices
  BY DEF StoreInv, NewIdsAreFree, SameServices
<1>4. QED
  BY <1>2, <1>3, NoRequestAdded

-------------------------------------------------------------------------------
(* The commands on stores, one by one *)

LEMMA InitStores == Init => StoreInv
<1> SUFFICES ASSUME Init PROVE StoreInv
  OBVIOUS
<1>1. subTokens.pending = {} /\ subs = {} /\ \A a \in AnonymousIds : anonymous[a] = Nil
  BY DEF Init, NoTokens
<1>2. CountsAreExact
  BY <1>1 DEF CountsAreExact, CountIsExact, Requests, Followers, SubscribersOf
<1>3. QED
  BY <1>1, <1>2 DEF StoreInv, RequestsAreUnique, NewIdsAreFree, ProvidersAreAsked,
     NamedStoresExist

LEMMA StoreCreateStores ==
    ASSUME TypeInv, TypeInv', StoreInv, NEW f \in FileIds, NEW t \in Paths,
           NEW public \in BOOLEAN, StoreCreate(f, t, public)
    PROVE  StoreInv'
<1> DEFINE new == [value |-> nextTimestamp, public |-> public]
<1>1. /\ stores' = [stores EXCEPT ![t] = new]
      /\ UNCHANGED <<services, subTokens, subs, anonymous, nextAnonymous>>
  BY DEF StoreCreate, tables
<1>2. new \in NamedStore
  BY DEF TypeInv, TypeOK, StoreTypes, NamedStore
<1> HIDE DEF new
<1>3. StoresKept
  BY <1>1, <1>2, NilAssumption DEF TypeInv, TypeOK, StoreTypes, StoresKept
<1>4. QED
  BY <1>1, <1>3, UnchangedServices, OnlyValuesChanged

LEMMA StoreUpdateStores ==
    ASSUME TypeInv, TypeInv', StoreInv, NEW f \in FileIds, NEW t \in Paths, NEW shortage,
           StoreUpdate(f, t, shortage)
    PROVE  StoreInv'
<1> DEFINE new == [stores[t] EXCEPT !.value = nextTimestamp]
<1>1. /\ stores' = stores \/ (stores[t] # Nil /\ stores' = [stores EXCEPT ![t] = new])
      /\ UNCHANGED <<services, subTokens, subs, anonymous, nextAnonymous>>
  BY DEF StoreUpdate, tables
<1>2. stores[t] # Nil => new \in NamedStore
  BY DEF TypeInv, TypeOK, StoreTypes, NamedStore
<1> HIDE DEF new
<1>3. StoresKept
  BY <1>1, <1>2, NilAssumption DEF TypeInv, TypeOK, StoreTypes, StoresKept
<1>4. QED
  BY <1>1, <1>3, UnchangedServices, OnlyValuesChanged

LEMMA AnonymousStoreCreateStores ==
    ASSUME TypeInv, TypeInv', StoreInv, NEW f \in FileIds, NEW s \in ServiceNames,
           AnonymousStoreCreate(f, s)
    PROVE  StoreInv'
<1> DEFINE new == NewAnonymousStore(s, f, nextTimestamp)
<1>1. PICK a : a = nextAnonymous
  OBVIOUS
<1>2. /\ anonymous' = [anonymous EXCEPT ![a] = new]
      /\ a <= MaxAnonymous
      /\ nextAnonymous' = a + 1
      /\ UNCHANGED <<services, subTokens, subs, stores>>
  BY <1>1 DEF AnonymousStoreCreate, tables
<1>3. a \in AnonymousIds /\ a \in Nat
  BY <1>1, <1>2, MotherboardAssumption DEF TypeInv, TypeOK, StoreTypes, AnonymousIds
<1>4. anonymous[a] = Nil
  BY <1>1, <1>3 DEF StoreInv, NewIdsAreFree
<1>5. \A b \in AnonymousIds : SameUsers(b)
  BY <1>2, RequestsAfter, FollowersAfter DEF SameUsers
<1>6. Requests(a)' = {} /\ Followers(a)' = {}
  BY <1>3, <1>4, <1>5 DEF SameUsers, StoreInv, CountsAreExact, CountIsExact
<1>7. CountIsExact(new, {}, {})
  <2>1. new \in AStore
    BY DEF NewAnonymousStore, AStore, AnonymousStore, TypeInv, TypeOK, StoreTypes
  <2>2. new # Nil
    BY <2>1, NilAssumption DEF AStore
  <2>3. QED
    BY <2>2, FS_EmptySet DEF CountIsExact, NewAnonymousStore
<1> HIDE DEF new
<1>8. CountsAreExact'
  BY <1>2, <1>3, <1>5, <1>6, <1>7, OneStoreCounted DEF StoreInv
<1>9. /\ \A b \in AnonymousIds : b # a => anonymous'[b] = anonymous[b]
      /\ anonymous[a] = Nil
  BY <1>2, <1>4 DEF TypeInv, TypeOK, StoreTypes
<1>10. SameServices
  BY <1>9 DEF SameServices
<1>11. NewIdsAreFree'
  <2>1. \A b \in AnonymousIds : b >= a + 1 => b >= a /\ b # a
    BY <1>3, MotherboardAssumption DEF AnonymousIds
  <2>2. QED
    BY <1>1, <1>2, <1>9, <2>1 DEF StoreInv, NewIdsAreFree
<1>12. QED
  BY <1>2, <1>8, <1>10, <1>11, UnchangedServices, NoRequestAdded DEF StoresKept

(* A command that counts store a, or changes its value, adds no request    *)
(* and no subscription to a named store.                                   *)
LEMMA OneStoreKeepsInv ==
    ASSUME TypeInv, TypeInv', StoreInv, NEW a \in AnonymousIds, anonymous[a] # Nil,
           NEW x, SameOwner(x, anonymous[a]),
           anonymous' = [anonymous EXCEPT ![a] = x],
           \A b \in AnonymousIds \ {a} : SameUsers(b),
           CountIsExact(x, Requests(a)', Followers(a)'),
           UNCHANGED <<services, stores, nextAnonymous>>,
           subTokens'.pending \subseteq subTokens.pending,
           \A s \in subs' \ subs : IsAnonymous(s.target)
    PROVE  StoreInv'
<1>1. CountsAreExact'
  BY OneStoreCounted DEF StoreInv
<1>2. SameServices
  BY ChangedStoreKeepsOwners, SameOwnersSameServices
<1>3. NewIdsAreFree'
  BY DEF StoreInv, NewIdsAreFree, TypeInv, TypeOK, StoreTypes
<1>4. QED
  BY <1>1, <1>2, <1>3, UnchangedServices, NoRequestAdded DEF StoresKept

LEMMA AnonymousStoreUpdateStores ==
    ASSUME TypeInv, TypeInv', StoreInv, NEW f \in FileIds, NEW a \in AnonymousIds,
           NEW shortage, AnonymousStoreUpdate(f, a, shortage)
    PROVE  StoreInv'
<1> DEFINE x == [anonymous[a] EXCEPT !.value = nextTimestamp]
<1>1. /\ anonymous[a] # Nil
      /\ anonymous' = [anonymous EXCEPT ![a] = x]
      /\ UNCHANGED <<services, subTokens, subs, stores, nextAnonymous>>
  BY DEF AnonymousStoreUpdate, tables
<1>2. anonymous[a] \in AStore /\ x \in AStore
  BY <1>1 DEF TypeInv, TypeOK, StoreTypes, AStore, AnonymousStore
<1>3. x # Nil
  BY <1>2, NilAssumption DEF AStore
<1>4. SameOwner(x, anonymous[a]) /\ x.pending = anonymous[a].pending
      /\ x.accepted = anonymous[a].accepted
      /\ x.hasEverHadSubscription = anonymous[a].hasEverHadSubscription
  BY <1>1, <1>2, <1>3 DEF AStore, AnonymousStore, SameOwner
<1> HIDE DEF x
<1>5. \A b \in AnonymousIds : SameUsers(b)
  BY <1>1, RequestsAfter, FollowersAfter DEF SameUsers
<1>6. CountIsExact(anonymous[a], Requests(a), Followers(a))
  BY DEF StoreInv, CountsAreExact
<1>7. CountIsExact(x, Requests(a), Followers(a))
  BY <1>1, <1>3, <1>4, <1>6 DEF CountIsExact
<1>8. CountIsExact(x, Requests(a)', Followers(a)')
  BY <1>5, <1>7 DEF SameUsers
<1>9. QED
  BY <1>1, <1>4, <1>5, <1>8, OneStoreKeepsInv

LEMMA SubscribePublicStores ==
    ASSUME TypeInv, TypeInv', StoreInv, NEW f \in FileIds, NEW t \in Paths, NEW id,
           NEW shortage, SubscribePublic(f, t, id, shortage)
    PROVE  StoreInv'
<1> DEFINE new == [file |-> f, id |-> id, target |-> t]
<1>1. /\ stores[t] # Nil
      /\ subs' = subs \union {new}
      /\ UNCHANGED <<services, subTokens, stores, anonymous, nextAnonymous>>
  BY DEF SubscribePublic, tables, storeVars
<1>2. new.target = t
  OBVIOUS
<1> HIDE DEF new
<1>3. \A a \in AnonymousIds : SameUsers(a)
  <2>1. \A a : t # Anonymous(a)
    BY DifferentStores
  <2>2. QED
    BY <1>1, <1>2, <2>1, RequestsAfter, FollowersAfter DEF SameUsers
<1>4. CountsAreExact'
  BY <1>1, <1>3, NoStoreCounted DEF StoreInv
<1>5. NewIdsAreFree' /\ SameServices /\ StoresKept
  BY <1>1 DEF StoreInv, NewIdsAreFree, SameServices, StoresKept
<1>6. QED
  BY <1>1, <1>2, <1>4, <1>5, UnchangedServices, NoRequestAdded

(* The entry a subscribe command adds has a token of its own, unless it is *)
(* taken back at once.                                                     *)
AsksFor(e, f, id, target, service) ==
    /\ e.client = f /\ e.id = id /\ e.target = target /\ e.service = service
    /\ \A p \in subTokens.pending : p.token # e.token

LEMMA AskAdds ==
    ASSUME NEW f, NEW id, NEW target, NEW service, NEW shortage,
           Ask(f, id, target, service, shortage)
    PROVE  \E e : /\ AsksFor(e, f, id, target, service)
                  /\ subTokens'.pending = IF IsAnonymous(target) /\ service \in shortage
                                          THEN subTokens.pending
                                          ELSE subTokens.pending \union {e}
<1> DEFINE entry(ts) == [token |-> ts[1], client |-> f, service |-> service,
                         id |-> id, target |-> target]
           created(ts) == Create(subTokens, ts, {entry(ts)})
<1>1. PICK ts \in Allocate(subTokens, 1) :
         subTokens' = IF IsAnonymous(target) /\ service \in shortage
                      THEN Discard(created(ts), {entry(ts)}) ELSE created(ts)
  BY DEF Ask
<1>2. ts[1] \notin InUse(subTokens)
  <2>1. FreshTokens(subTokens, 1, ts)
    BY AllocateGivesFreshTokens, Zenon
  <2>2. QED
    BY <2>1 DEF FreshTokens
<1>3. AsksFor(entry(ts), f, id, target, service)
  BY <1>2 DEF AsksFor, InUse
<1>4. entry(ts) \notin subTokens.pending
  BY <1>3 DEF AsksFor
<1> HIDE DEF entry
<1>5. /\ created(ts).pending = subTokens.pending \union {entry(ts)}
      /\ Discard(created(ts), {entry(ts)}).pending = created(ts).pending \ {entry(ts)}
  BY DEF Create, Discard
<1> HIDE DEF created
<1>6. subTokens'.pending = IF IsAnonymous(target) /\ service \in shortage
                           THEN subTokens.pending
                           ELSE subTokens.pending \union {entry(ts)}
  BY <1>1, <1>4, <1>5
<1>7. QED
  BY <1>3, <1>6

LEMMA OneRequestAdded ==
    ASSUME TypeInv, TypeInv', StoreInv, NEW e, NEW f, NEW id, NEW target, NEW service,
           AsksFor(e, f, id, target, service),
           subTokens'.pending \subseteq subTokens.pending \union {e},
           Provides(service, ServiceOf(target))', ServiceOf(target)' = ServiceOf(target),
           ~IsAnonymous(target) => target \in Paths /\ stores[target] # Nil,
           CountsAreExact', NewIdsAreFree', SameServices,
           UNCHANGED <<services, stores, subs>>
    PROVE  StoreInv'
<1>1. RequestsAreUnique'
  BY DEF StoreInv, RequestsAreUnique, AsksFor
<1>2. ProvidersAreAsked'
  <2>1. ASSUME NEW p \in subTokens'.pending
        PROVE  Provides(p.service, ServiceOf(p.target))'
    <3>1. CASE p \in subTokens.pending
      BY <3>1, UnchangedServices, ProviderStillAsked
    <3>2. CASE p = e
      BY <3>2 DEF AsksFor
    <3>3. QED
      BY <3>1, <3>2
  <2>2. QED
    BY <2>1 DEF ProvidersAreAsked
<1>3. NamedStoresExist'
  BY DEF StoreInv, NamedStoresExist, AsksFor
<1>4. QED
  BY <1>1, <1>2, <1>3 DEF StoreInv

LEMMA SubscribePrivateStores ==
    ASSUME TypeInv, TypeInv', StoreInv, NEW f \in FileIds, NEW t \in Paths, NEW id,
           NEW shortage, SubscribePrivate(f, t, id, shortage)
    PROVE  StoreInv'
<1>1. PICK g : g = services[t.service].file
  OBVIOUS
<1>2. /\ stores[t] # Nil
      /\ Ask(f, id, t, g, shortage)
      /\ UNCHANGED <<services, stores, subs, anonymous, nextAnonymous>>
  BY <1>1 DEF SubscribePrivate, storeVars
<1>3. ~IsAnonymous(t)
  BY DifferentStores
<1>4. PICK e : /\ AsksFor(e, f, id, t, g)
               /\ subTokens'.pending = subTokens.pending \union {e}
  <2>1. Ask(f, id, t, g, shortage)
    BY <1>2
  <2>2. PICK e : /\ AsksFor(e, f, id, t, g)
                 /\ subTokens'.pending = IF IsAnonymous(t) /\ g \in shortage
                                         THEN subTokens.pending
                                         ELSE subTokens.pending \union {e}
    BY <2>1, AskAdds
  <2>3. QED
    BY <1>3, <2>2
<1>5. e.target = t
  BY <1>4 DEF AsksFor
<1>6. \A a \in AnonymousIds : SameUsers(a)
  <2>1. \A a : t # Anonymous(a)
    BY DifferentStores
  <2>2. QED
    BY <1>2, <1>4, <1>5, <2>1, RequestsAfter, FollowersAfter DEF SameUsers
<1>7. CountsAreExact'
  BY <1>2, <1>6, NoStoreCounted DEF StoreInv
<1>8. Provides(g, ServiceOf(t))'
  <2>1. services[t.service] # Nil
    BY <1>2, NilAssumption DEF TypeInv, StoresAreProvided, BoundService
  <2>2. QED
    BY <1>1, <1>2, <1>3, <2>1 DEF Provides, ServiceOf
<1>9. ServiceOf(t)' = ServiceOf(t)
  BY <1>3 DEF ServiceOf
<1>10. NewIdsAreFree' /\ SameServices
  BY <1>2 DEF StoreInv, NewIdsAreFree, SameServices
<1>11. QED
  BY <1>2, <1>4, <1>7, <1>8, <1>9, <1>10, OneRequestAdded

LEMMA AnonymousStoreSubscribeStores ==
    ASSUME TypeInv, TypeInv', ServedInv, StoreInv, NEW f \in FileIds,
           NEW a \in AnonymousIds, NEW id, NEW shortage,
           AnonymousStoreSubscribe(f, a, id, shortage)
    PROVE  StoreInv'
<1> DEFINE up == IncrementPending(anonymous[a])
           target == Anonymous(a)
<1>1. PICK g : g = anonymous[a].owner
  OBVIOUS
<1>2. PICK x : x = IF g \in shortage THEN Decrement(up, 1, 0) ELSE up
  OBVIOUS
<1>3. /\ anonymous[a] # Nil
      /\ Ask(f, id, target, g, shortage)
      /\ anonymous' = [anonymous EXCEPT ![a] = x]
      /\ UNCHANGED <<services, stores, subs, nextAnonymous>>
  BY <1>1, <1>2 DEF AnonymousStoreSubscribe
<1>4. PICK e : /\ AsksFor(e, f, id, target, g)
               /\ subTokens'.pending = IF g \in shortage THEN subTokens.pending
                                       ELSE subTokens.pending \union {e}
  BY <1>3, DifferentStores, AskAdds
<1>5. e.target = target /\ e \notin Requests(a)
  BY <1>4 DEF AsksFor, Requests
<1>6. anonymous[a] \in AStore
  BY <1>3 DEF TypeInv, TypeOK, StoreTypes, AStore
<1>7. CountIsExact(anonymous[a], Requests(a), Followers(a))
  BY DEF StoreInv, CountsAreExact
<1>8. CountIsExact(up, Requests(a) \union {e}, Followers(a))
  BY <1>5, <1>6, <1>7, FinitelyMany, CountedUp
<1>9. CountIsExact(Decrement(up, 1, 0), Requests(a), Followers(a))
  <2>1. up \in MaybeAStore
    BY <1>6, CountingTypes DEF MaybeAStore
  <2>2. Cardinality({e}) = 1 /\ Cardinality({}) = 0
    BY FS_Singleton, FS_EmptySet
  <2>3. IsFiniteSet(Requests(a) \union {e}) /\ IsFiniteSet(Followers(a))
    BY FinitelyMany, FS_AddElement
  <2>4. CountIsExact(Decrement(up, Cardinality({e}), Cardinality({})),
                     (Requests(a) \union {e}) \ {e}, Followers(a) \ {})
    BY <1>8, <2>1, <2>3, CountedDown
  <2>5. (Requests(a) \union {e}) \ {e} = Requests(a) /\ Followers(a) \ {} = Followers(a)
    BY <1>5
  <2>6. QED
    BY <2>2, <2>4, <2>5
<1>10. SameOwner(x, anonymous[a])
  <2>1. SameOwner(up, anonymous[a])
    BY <1>3, <1>6, CountingKeepsOwner DEF MaybeAStore
  <2>2. SameOwner(Decrement(up, 1, 0), up)
    BY <1>6, CountingTypes, CountingKeepsOwner DEF MaybeAStore
  <2>3. QED
    BY <1>2, <2>1, <2>2 DEF SameOwner
<1> HIDE DEF up
<1>11. Followers(a)' = Followers(a)
  BY <1>3, FollowersAfter
<1>12. CountIsExact(x, Requests(a)', Followers(a)')
  <2>1. Requests(a)' = IF g \in shortage THEN Requests(a) ELSE Requests(a) \union {e}
    BY <1>4, <1>5, RequestsAfter
  <2>2. QED
    BY <1>2, <1>8, <1>9, <1>11, <2>1
<1>13. \A b \in AnonymousIds \ {a} : SameUsers(b)
  <2>1. \A b : b # a => e.target # Anonymous(b)
    BY <1>5, DifferentStores
  <2>2. QED
    BY <1>3, <1>4, <2>1, RequestsAfter, FollowersAfter DEF SameUsers
<1>14. CountsAreExact'
  BY <1>3, <1>12, <1>13, OneStoreCounted DEF StoreInv
<1>15. CASE g \in shortage
  BY <1>3, <1>4, <1>10, <1>12, <1>13, <1>15, OneStoreKeepsInv
<1>16. CASE g \notin shortage
  <2>1. anonymous'[a] = x /\ x # Nil
    BY <1>2, <1>3, <1>6, <1>16, CountingTypes, NilAssumption
       DEF AStore, up, TypeInv, TypeOK, StoreTypes
  <2>2. IsAnonymous(target) /\ target.anonymous = a
    BY DEF IsAnonymous, Anonymous
  <2>3. x.owner = g /\ x.service = anonymous[a].service
    BY <1>1, <1>10, <2>1 DEF SameOwner
  <2>4. ServiceOf(target)' = ServiceOf(target)
    BY <2>1, <2>2, <2>3 DEF ServiceOf
  <2>5. Provides(g, ServiceOf(target))
    BY <1>1, <1>3, <2>2 DEF ServedInv, OwnersProvide, Provides, ServiceOf
  <2>6. Provides(g, ServiceOf(target))'
    BY <1>3, <2>4, <2>5 DEF Provides
  <2>7. NewIdsAreFree'
    BY <1>3 DEF StoreInv, NewIdsAreFree, TypeInv, TypeOK, StoreTypes
  <2>8. SameServices
    BY <1>3, <1>10, ChangedStoreKeepsOwners, SameOwnersSameServices
  <2>9. QED
    BY <1>3, <1>4, <1>14, <2>2, <2>4, <2>6, <2>7, <2>8, OneRequestAdded
<1>17. QED
  BY <1>15, <1>16

(* A verdict.  The token stands for one request, p, which leaves the table. *)
LEMMA OneRequestConsumed ==
    ASSUME StoreInv, NEW token, NEW f, NEW p \in Consumable(subTokens, token, f)
    PROVE  Consumable(subTokens, token, f) = {p} /\ p \in subTokens.pending
BY DEF StoreInv, RequestsAreUnique, Consumable

LEMMA AcceptNamedStores ==
    ASSUME TypeInv, TypeInv', StoreInv, NEW p \in subTokens.pending, ~IsAnonymous(p.target),
           subTokens'.pending = subTokens.pending \ {p}, NEW shortage,
           AcceptNamed(p, shortage), UNCHANGED <<services, stores, nextAnonymous>>
    PROVE  StoreInv'
<1> DEFINE new == [file |-> p.client, id |-> p.id, target |-> p.target]
<1>1. anonymous' = anonymous /\ (subs' = subs \/ subs' = subs \union {new})
  BY DEF AcceptNamed
<1>2. p.target \in Paths /\ stores[p.target] # Nil
  BY TargetTypes DEF StoreInv, NamedStoresExist, TypeInv, TypeOK, StoreTypes,
     PendingSubscription
<1>3. new.target = p.target /\ \A a : p.target # Anonymous(a)
  BY DifferentStores
<1> HIDE DEF new
<1>4. \A a \in AnonymousIds : SameUsers(a)
  BY <1>1, <1>3, RequestsAfter, FollowersAfter DEF SameUsers
<1>5. CountsAreExact'
  BY <1>1, <1>4, NoStoreCounted DEF StoreInv
<1>6. NewIdsAreFree' /\ SameServices
  BY <1>1 DEF StoreInv, NewIdsAreFree, SameServices
<1>7. \A s \in subs' \ subs : s.target \in Paths /\ stores[s.target] # Nil
  BY <1>1, <1>2, <1>3
<1>8. QED
  BY <1>5, <1>6, <1>7, UnchangedServices, NoRequestAdded DEF StoresKept

LEMMA AcceptAnonymousStores ==
    ASSUME TypeInv, TypeInv', StoreInv, NEW p \in subTokens.pending, IsAnonymous(p.target),
           subTokens'.pending = subTokens.pending \ {p}, NEW shortage,
           AcceptAnonymous(p, shortage), UNCHANGED <<services, stores, nextAnonymous>>
    PROVE  StoreInv'
<1> DEFINE a == p.target.anonymous
           x == anonymous[a]
           new == [file |-> p.client, id |-> p.id, target |-> p.target]
<1>1. a \in AnonymousIds /\ anonymous[a] # Nil /\ p.target = Anonymous(a)
  BY UsedStoresExist, TargetTypes DEF StoreInv, TypeInv, TypeOK, StoreTypes,
     PendingSubscription
<1>2. x \in AStore /\ p \in Requests(a)
  BY <1>1 DEF TypeInv, TypeOK, StoreTypes, AStore, Requests
<1>3. CountIsExact(x, Requests(a), Followers(a))
  BY <1>1 DEF StoreInv, CountsAreExact
<1>4. Requests(a)' = Requests(a) \ {p}
  BY <1>1, RequestsAfter
<1>5. new.target = Anonymous(a) /\ new.file = p.client /\ new.id = p.id
  BY <1>1
<1>6. /\ SameOwner(AcceptPending(x), x)
      /\ SameOwner(Decrement(AcceptPending(x), 0, 1), x)
  <2>1. SameOwner(AcceptPending(x), x)
    BY <1>1, <1>2, CountingKeepsOwner DEF MaybeAStore
  <2>2. SameOwner(Decrement(AcceptPending(x), 0, 1), AcceptPending(x))
    BY <1>2, CountingTypes, CountingKeepsOwner DEF MaybeAStore
  <2>3. QED
    BY <2>1, <2>2 DEF SameOwner
<1>7. \A b \in AnonymousIds \ {a} : Requests(b)' = Requests(b)
  BY <1>1, DifferentStores, RequestsAfter
<1>8. CASE Subscribed(subs, p.client, p.id) \/ p.client \in shortage
  <2>1. /\ anonymous' = [anonymous EXCEPT ![a] = Decrement(AcceptPending(x), 0, 1)]
        /\ subs' = subs
    BY <1>1, <1>8 DEF AcceptAnonymous
  <2>2. CountIsExact(Decrement(AcceptPending(x), 0, 1), Requests(a)', Followers(a)')
    <3>1. Followers(a)' = Followers(a)
      BY <2>1, FollowersAfter
    <3>2. CountIsExact(Decrement(AcceptPending(x), 0, 1), Requests(a) \ {p}, Followers(a))
      BY <1>2, <1>3, FinitelyMany, AcceptedInVain
    <3>3. QED
      BY <1>4, <3>1, <3>2
  <2>3. \A b \in AnonymousIds \ {a} : SameUsers(b)
    BY <1>7, <2>1, FollowersAfter DEF SameUsers
  <2> HIDE DEF x
  <2>4. QED
    BY <1>1, <1>6, <2>1, <2>2, <2>3, OneStoreKeepsInv DEF x
<1>9. CASE ~(Subscribed(subs, p.client, p.id) \/ p.client \in shortage)
  <2>1. /\ anonymous' = [anonymous EXCEPT ![a] = AcceptPending(x)]
        /\ subs' = subs \union {new}
    BY <1>1, <1>9 DEF AcceptAnonymous
  <2>2. new \notin Followers(a)
    BY <1>5, <1>9 DEF Followers, SubscribersOf, Subscribed
  <2> HIDE DEF new
  <2>3. CountIsExact(AcceptPending(x), Requests(a)', Followers(a)')
    <3>1. Followers(a)' = Followers(a) \union {new}
      BY <1>5, <2>1, FollowersAfter
    <3>2. CountIsExact(AcceptPending(x), Requests(a) \ {p}, Followers(a) \union {new})
      BY <1>2, <1>3, <2>2, FinitelyMany, CountedUp
    <3>3. QED
      BY <1>4, <3>1, <3>2
  <2>4. \A b \in AnonymousIds \ {a} : SameUsers(b)
    BY <1>5, <1>7, <2>1, DifferentStores, FollowersAfter DEF SameUsers
  <2>5. \A s \in subs' \ subs : IsAnonymous(s.target)
    BY <1>5, <2>1, DifferentStores
  <2>6. QED
    BY <1>1, <1>6, <2>1, <2>3, <2>4, <2>5, OneStoreKeepsInv
<1>10. QED
  BY <1>8, <1>9

LEMMA RejectStores ==
    ASSUME TypeInv, TypeInv', StoreInv, NEW p \in subTokens.pending,
           subTokens'.pending = subTokens.pending \ {p}, NEW shortage,
           Reject(p, shortage), UNCHANGED <<services, stores, nextAnonymous>>
    PROVE  StoreInv'
<1>1. subs' = subs /\ \A b : Followers(b)' = Followers(b)
  BY FollowersAfter DEF Reject
<1>2. CASE ~IsAnonymous(p.target)
  <2>1. anonymous' = anonymous
    BY <1>2 DEF Reject
  <2>2. \A b \in AnonymousIds : SameUsers(b)
    BY <1>1, <1>2, DifferentStores, RequestsAfter DEF SameUsers
  <2>3. CountsAreExact'
    BY <2>1, <2>2, NoStoreCounted DEF StoreInv
  <2>4. NewIdsAreFree' /\ SameServices
    BY <2>1 DEF StoreInv, NewIdsAreFree, SameServices
  <2>5. QED
    BY <1>1, <2>3, <2>4, UnchangedServices, NoRequestAdded DEF StoresKept
<1>3. CASE IsAnonymous(p.target)
  <2> DEFINE a == p.target.anonymous
             x == anonymous[a]
  <2>1. a \in AnonymousIds /\ anonymous[a] # Nil /\ p.target = Anonymous(a)
    BY <1>3, UsedStoresExist, TargetTypes DEF StoreInv, TypeInv, TypeOK, StoreTypes,
       PendingSubscription
  <2>2. x \in MaybeAStore /\ p \in Requests(a)
    BY <2>1 DEF TypeInv, TypeOK, StoreTypes, MaybeAStore, AStore, Requests
  <2>3. CountIsExact(x, Requests(a), Followers(a))
    BY <2>1 DEF StoreInv, CountsAreExact
  <2>4. CountIsExact(Decrement(x, 1, 0), Requests(a) \ {p}, Followers(a))
    <3>1. Cardinality({p}) = 1 /\ Cardinality({}) = 0
      BY FS_Singleton, FS_EmptySet
    <3>2. CountIsExact(Decrement(x, Cardinality({p}), Cardinality({})),
                       Requests(a) \ {p}, Followers(a) \ {})
      BY <2>2, <2>3, FinitelyMany, CountedDown
    <3>3. QED
      BY <3>1, <3>2
  <2>5. anonymous' = [anonymous EXCEPT ![a] = Decrement(x, 1, 0)]
    BY <1>3 DEF Reject
  <2>6. SameOwner(Decrement(x, 1, 0), x)
    BY <2>2, CountingKeepsOwner
  <2>7. Requests(a)' = Requests(a) \ {p}
    BY <2>1, RequestsAfter
  <2>8. CountIsExact(Decrement(x, 1, 0), Requests(a)', Followers(a)')
    BY <1>1, <2>4, <2>7
  <2>9. \A b \in AnonymousIds \ {a} : SameUsers(b)
    BY <1>1, <2>1, DifferentStores, RequestsAfter DEF SameUsers
  <2>10. QED
    BY <1>1, <2>1, <2>5, <2>6, <2>8, <2>9, OneStoreKeepsInv
<1>4. QED
  BY <1>2, <1>3

LEMMA StoreSubscriptionReplyStores ==
    ASSUME TypeInv, TypeInv', StoreInv, NEW f \in FileIds, NEW m,
           NEW accepted \in BOOLEAN, NEW shortage,
           StoreSubscriptionReply(f, m, accepted, shortage)
    PROVE  StoreInv'
<1> DEFINE consumed == Consumable(subTokens, m.token, f)
<1>1. UNCHANGED <<services, stores, nextAnonymous>>
  BY DEF StoreSubscriptionReply
<1>2. CASE UNCHANGED <<subTokens, subs, anonymous>>
  BY <1>1, <1>2, UnchangedServices, OnlyValuesChanged DEF StoresKept
<1>3. ASSUME NEW p \in consumed, subTokens' = Discard(subTokens, consumed),
             \/ ~IsAnonymous(p.target) /\ AcceptNamed(p, shortage)
             \/ IsAnonymous(p.target) /\ AcceptAnonymous(p, shortage)
             \/ Reject(p, shortage)
      PROVE  StoreInv'
  <2>1. consumed = {p} /\ p \in subTokens.pending
    BY OneRequestConsumed
  <2>2. subTokens'.pending = subTokens.pending \ {p}
    BY <1>3, <2>1 DEF Discard, TypeInv, TypeOK, StoreTypes
  <2> HIDE DEF consumed
  <2>3. QED
    BY <1>1, <1>3, <2>1, <2>2, AcceptNamedStores, AcceptAnonymousStores, RejectStores
<1>4. \/ UNCHANGED <<subTokens, subs, anonymous>>
      \/ \E p \in consumed :
            /\ subTokens' = Discard(subTokens, consumed)
            /\ \/ ~IsAnonymous(p.target) /\ AcceptNamed(p, shortage)
               \/ IsAnonymous(p.target) /\ AcceptAnonymous(p, shortage)
               \/ Reject(p, shortage)
  BY DEF StoreSubscriptionReply
<1>5. QED
  BY <1>2, <1>3, <1>4

LEMMA StoreUnsubscribeStores ==
    ASSUME TypeInv, TypeInv', StoreInv, NEW f \in FileIds, NEW id, NEW shortage,
           StoreUnsubscribe(f, id, shortage)
    PROVE  StoreInv'
<1>1. PICK s \in OwnSubscription(subs, f, id) :
         /\ subs' = subs \ {s}
         /\ IF IsAnonymous(s.target) /\ anonymous[s.target.anonymous] # Nil
            THEN anonymous' = [anonymous EXCEPT ![s.target.anonymous] =
                                 Decrement(anonymous[s.target.anonymous], 0, 1)]
            ELSE anonymous' = anonymous
  BY DEF StoreUnsubscribe
<1>2. UNCHANGED <<services, subTokens, stores, nextAnonymous>>
  BY DEF StoreUnsubscribe, tables
<1>3. s \in subs
  BY DEF OwnSubscription
<1>4. \A b : Requests(b)' = Requests(b)
  BY <1>2, RequestsAfter
<1>5. CASE ~IsAnonymous(s.target)
  <2>1. anonymous' = anonymous
    BY <1>1, <1>5
  <2>2. \A b \in AnonymousIds : SameUsers(b)
    BY <1>1, <1>4, <1>5, DifferentStores, FollowersAfter DEF SameUsers
  <2>3. CountsAreExact'
    BY <2>1, <2>2, NoStoreCounted DEF StoreInv
  <2>4. NewIdsAreFree' /\ SameServices
    BY <1>2, <2>1 DEF StoreInv, NewIdsAreFree, SameServices
  <2>5. QED
    BY <1>1, <1>2, <2>3, <2>4, UnchangedServices, NoRequestAdded DEF StoresKept
<1>6. CASE IsAnonymous(s.target)
  <2> DEFINE a == s.target.anonymous
             x == anonymous[a]
  <2>1. a \in AnonymousIds /\ anonymous[a] # Nil /\ s.target = Anonymous(a)
    BY <1>3, <1>6, UsedStoresExist, TargetTypes DEF StoreInv, TypeInv, TypeOK, StoreTypes,
       Subscription
  <2>2. x \in MaybeAStore /\ s \in Followers(a)
    BY <1>3, <2>1 DEF TypeInv, TypeOK, StoreTypes, MaybeAStore, AStore, Followers, SubscribersOf
  <2>3. CountIsExact(x, Requests(a), Followers(a))
    BY <2>1 DEF StoreInv, CountsAreExact
  <2>4. CountIsExact(Decrement(x, 0, 1), Requests(a), Followers(a) \ {s})
    <3>1. Cardinality({s}) = 1 /\ Cardinality({}) = 0
      BY FS_Singleton, FS_EmptySet
    <3>2. CountIsExact(Decrement(x, Cardinality({}), Cardinality({s})),
                       Requests(a) \ {}, Followers(a) \ {s})
      BY <2>2, <2>3, FinitelyMany, CountedDown
    <3>3. QED
      BY <3>1, <3>2
  <2>5. anonymous' = [anonymous EXCEPT ![a] = Decrement(x, 0, 1)]
    BY <1>1, <1>6, <2>1
  <2>6. SameOwner(Decrement(x, 0, 1), x)
    BY <2>2, CountingKeepsOwner
  <2>7. Followers(a)' = Followers(a) \ {s}
    BY <1>1, <2>1, FollowersAfter
  <2>8. CountIsExact(Decrement(x, 0, 1), Requests(a)', Followers(a)')
    BY <1>4, <2>4, <2>7
  <2>9. \A b \in AnonymousIds \ {a} : SameUsers(b)
    BY <1>1, <1>4, <2>1, DifferentStores, FollowersAfter DEF SameUsers
  <2>10. QED
    BY <1>1, <1>2, <2>1, <2>5, <2>6, <2>8, <2>9, OneStoreKeepsInv
<1>7. QED
  BY <1>5, <1>6

(* When the provider closes, every request to its stores is one it was     *)
(* asked for, and so goes with it.                                         *)
LEMMA ProviderTakesItsRequests ==
    ASSUME StoreInv, NEW f, NEW p \in subTokens.pending, ServiceOf(p.target) \in ServicesOf(f)
    PROVE  p \in EntriesOf(subTokens, f)
BY DEF StoreInv, ProvidersAreAsked, Provides, ServicesOf, EntriesOf

LEMMA CloseCounts ==
    ASSUME TypeInv, StoreInv, NEW f \in FileIds, NEW a \in AnonymousIds,
           subTokens'.pending = subTokens.pending \ EntriesOf(subTokens, f),
           subs' = subs \ (OwnSubscriptions(f) \union OrphanedSubscriptions(f))
    PROVE  CountIsExact(AnonymousAfterClose(f)[a], Requests(a)', Followers(a)')
<1> DEFINE Q == {p \in EntriesOf(subTokens, f) : p.target = Anonymous(a)}
           G == {s \in OwnSubscriptions(f) : s.target = Anonymous(a)}
<1>1. AnonymousAfterClose(f)[a] =
         IF Gone(f, a) THEN Nil ELSE Decrement(anonymous[a], Cardinality(Q), Cardinality(G))
  BY DEF AnonymousAfterClose
<1>2. Requests(a)' = Requests(a) \ Q
  BY DEF Requests
<1>3. IsAnonymous(Anonymous(a)) /\ Anonymous(a).anonymous = a
  BY DEF Anonymous, IsAnonymous
<1>4. CASE Gone(f, a)
  <2>1. Requests(a)' = {}
    <3>1. ASSUME NEW p \in Requests(a)
          PROVE  p \in Q
      <4>1. p \in subTokens.pending /\ p.target = Anonymous(a)
        BY <3>1 DEF Requests
      <4>2. ServiceOf(p.target) = anonymous[a].service
        BY <1>3, <4>1 DEF ServiceOf
      <4>3. anonymous[a].service \in ServicesOf(f)
        BY <1>4 DEF Gone
      <4>4. QED
        BY <4>1, <4>2, <4>3, ProviderTakesItsRequests
    <3>2. QED
      BY <1>2, <3>1
  <2>2. Followers(a)' = {}
    BY <1>3, <1>4 DEF Followers, SubscribersOf, OrphanedSubscriptions
  <2>3. QED
    BY <1>1, <1>4, <2>1, <2>2 DEF CountIsExact
<1>5. CASE ~Gone(f, a)
  <2>1. Followers(a)' = Followers(a) \ G
    BY <1>3, <1>5 DEF Followers, SubscribersOf, OrphanedSubscriptions, OwnSubscriptions
  <2>2. Q \in SUBSET Requests(a) /\ G \in SUBSET Followers(a)
    BY DEF Requests, Followers, SubscribersOf, EntriesOf, OwnSubscriptions
  <2>3. CountIsExact(anonymous[a], Requests(a), Followers(a))
    BY DEF StoreInv, CountsAreExact
  <2>4. anonymous[a] \in MaybeAStore
    BY DEF TypeInv, TypeOK, StoreTypes, MaybeAStore, AStore
  <2> HIDE DEF Q, G
  <2>5. CountIsExact(Decrement(anonymous[a], Cardinality(Q), Cardinality(G)),
                     Requests(a) \ Q, Followers(a) \ G)
    BY <2>2, <2>3, <2>4, FinitelyMany, CountedDown
  <2>6. QED
    BY <1>1, <1>2, <1>5, <2>1, <2>5
<1>6. QED
  BY <1>4, <1>5

LEMMA CloseStores ==
    ASSUME TypeInv, TypeInv', StoreInv, NEW f \in FileIds, NEW shortage, Close(f, shortage)
    PROVE  StoreInv'
<1>1. /\ services' = [s \in ServiceNames |-> IF s \in ServicesOf(f) THEN Nil ELSE services[s]]
      /\ subTokens' = Discard(subTokens, EntriesOf(subTokens, f))
      /\ subs' = subs \ (OwnSubscriptions(f) \union OrphanedSubscriptions(f))
      /\ stores' = [t \in Paths |-> IF t.service \in ServicesOf(f) THEN Nil ELSE stores[t]]
      /\ anonymous' = AnonymousAfterClose(f)
      /\ nextAnonymous' = nextAnonymous
  BY DEF Close
<1>2. subTokens'.pending = subTokens.pending \ EntriesOf(subTokens, f)
  BY <1>1 DEF Discard, TypeInv, TypeOK, StoreTypes
<1>3. CountsAreExact'
  BY <1>1, <1>2, CloseCounts DEF CountsAreExact, CountIsExact
<1>4. \A a \in AnonymousIds : SameOwner(anonymous'[a], anonymous[a])
  BY <1>1, AnonymousLeftByClose DEF SameOwner
<1>5. NewIdsAreFree'
  BY <1>1, <1>4 DEF StoreInv, NewIdsAreFree, SameOwner
<1>6. RequestsAreUnique'
  BY <1>2 DEF StoreInv, RequestsAreUnique
<1>7. ASSUME NEW p \in subTokens.pending, p \in subTokens'.pending
      PROVE  /\ ServiceOf(p.target)' = ServiceOf(p.target)
             /\ ServiceOf(p.target) \in ServiceNames \ ServicesOf(f)
  <2>1. ServiceOf(p.target) \in ServiceNames \ ServicesOf(f)
    BY <1>2, <1>7, ProviderTakesItsRequests, ServiceOfRequest
  <2>2. CASE ~IsAnonymous(p.target)
    BY <2>1, <2>2 DEF ServiceOf
  <2>3. CASE IsAnonymous(p.target)
    <3>1. p.target.anonymous \in AnonymousIds /\ anonymous'[p.target.anonymous] # Nil
      <4>1. /\ p.target.anonymous \in AnonymousIds
            /\ p.target = Anonymous(p.target.anonymous)
        BY <2>3, TargetTypes DEF TypeInv, TypeOK, StoreTypes, PendingSubscription
      <4>2. p \in Requests(p.target.anonymous)'
        BY <1>7, <4>1 DEF Requests
      <4>3. QED
        BY <1>3, <4>1, <4>2 DEF CountsAreExact, CountIsExact
    <3>2. QED
      BY <1>4, <2>1, <2>3, <3>1 DEF SameOwner, ServiceOf
  <2>4. QED
    BY <2>2, <2>3, <2>1
<1>8. ProvidersAreAsked'
  <2> SUFFICES ASSUME NEW p \in subTokens'.pending
               PROVE  Provides(p.service, ServiceOf(p.target))'
    BY DEF ProvidersAreAsked
  <2>1. p \in subTokens.pending
    BY <1>2
  <2>2. Provides(p.service, ServiceOf(p.target))
    BY <2>1 DEF StoreInv, ProvidersAreAsked
  <2>3. /\ ServiceOf(p.target)' = ServiceOf(p.target)
        /\ ServiceOf(p.target) \in ServiceNames \ ServicesOf(f)
    BY <2>1, <1>7
  <2>4. services'[ServiceOf(p.target)] = services[ServiceOf(p.target)]
    BY <1>1, <2>3
  <2>5. QED
    BY <2>2, <2>3, <2>4 DEF Provides
<1>9. NamedStoresExist'
  <2>1. ASSUME NEW p \in subTokens'.pending, ~IsAnonymous(p.target)
        PROVE  stores'[p.target] # Nil
    <3>1. p \in subTokens.pending /\ p.target \in Paths
      BY <1>2, <2>1, TargetTypes DEF TypeInv, TypeOK, StoreTypes, PendingSubscription
    <3>2. p.target.service \notin ServicesOf(f)
      BY <1>7, <2>1, <3>1 DEF ServiceOf
    <3>3. QED
      BY <1>1, <2>1, <3>1, <3>2 DEF StoreInv, NamedStoresExist
  <2>2. ASSUME NEW s \in subs', ~IsAnonymous(s.target)
        PROVE  stores'[s.target] # Nil
    <3>1. s \in subs /\ s.target \in Paths
      BY <1>1, <2>2, TargetTypes DEF TypeInv, TypeOK, StoreTypes, Subscription
    <3>2. s.target.service \notin ServicesOf(f)
      BY <1>1, <2>2, <3>1 DEF OrphanedSubscriptions
    <3>3. QED
      BY <1>1, <2>2, <3>1, <3>2 DEF StoreInv, NamedStoresExist
  <2>3. QED
    BY <2>1, <2>2 DEF NamedStoresExist
<1>10. QED
  BY <1>3, <1>5, <1>6, <1>8, <1>9 DEF StoreInv

(* The commands on services and calls leave what stores use alone. *)
LEMMA BusCommandsKeepStores ==
    ASSUME TypeInv, TypeInv', StoreInv, NEW f \in FileIds,
           \/ Open(f)
           \/ \E s \in ServiceNames : BindService(f, s) \/ FunctionCall(f, s)
           \/ \E m, badFds, shortage : FunctionCallReply(f, m, badFds, shortage)
           \/ \E shortage : InboxNextMessage(f, shortage)
    PROVE  StoreInv'
<1>1. SameProviders
  <2>1. CASE Open(f) \/ \E m, badFds, shortage : FunctionCallReply(f, m, badFds, shortage)
    BY <2>1, UnchangedServices DEF Open, FunctionCallReply
  <2>2. ASSUME NEW s \in ServiceNames, BindService(f, s) \/ FunctionCall(f, s)
        PROVE  SameProviders
    BY <2>2, BindKeepsProviders, FunctionCallKeepsProviders
  <2>3. ASSUME NEW shortage, InboxNextMessage(f, shortage)
        PROVE  SameProviders
    <3>1. CASE PopMessage(f) \/ WouldBlock(f, shortage)
      BY <3>1, UnchangedServices DEF PopMessage, WouldBlock
    <3>2. CASE \E s \in ServicesOf(f) : FlushRequests(f, s, shortage)
      BY <3>2, FlushKeepsProviders
    <3>3. QED
      BY <2>3, <3>1, <3>2 DEF InboxNextMessage
  <2>4. QED
    BY <2>1, <2>2, <2>3
<1>2. UNCHANGED <<subTokens, subs, storeVars>>
  BY DEF Open, BindService, FunctionCall, FunctionCallReply, InboxNextMessage, tables
<1>3. QED
  BY <1>1, <1>2, OnlyValuesChanged DEF storeVars, StoresKept

LEMMA NextStores == TypeInv /\ TypeInv' /\ ServedInv /\ StoreInv /\ [Next]_vars => StoreInv'
<1> SUFFICES ASSUME TypeInv, TypeInv', ServedInv, StoreInv, [Next]_vars
             PROVE  StoreInv'
  OBVIOUS
<1>1. CASE UNCHANGED vars
  BY <1>1, UnchangedServices, OnlyValuesChanged DEF vars, StoresKept
<1>2. ASSUME NEW f \in FileIds, Answer(f)
      PROVE  StoreInv'
  BY <1>2, BusCommandsKeepStores, StoreSubscriptionReplyStores DEF Answer
<1>3. ASSUME NEW f \in FileIds, Write(f)
      PROVE  StoreInv'
  <2>1. Visibilities \subseteq BOOLEAN
    BY MotherboardAssumption
  <2>2. QED
    BY <1>3, <2>1, StoreCreateStores, StoreUpdateStores, AnonymousStoreCreateStores,
       AnonymousStoreUpdateStores DEF Write
<1>4. ASSUME NEW f \in FileIds, Subscribe(f)
      PROVE  StoreInv'
  BY <1>4, SubscribePublicStores, SubscribePrivateStores, AnonymousStoreSubscribeStores,
     StoreUnsubscribeStores DEF Subscribe
<1>5. QED
  BY <1>1, <1>2, <1>3, <1>4, BusCommandsKeepStores, CloseStores DEF Next

LEMMA StoreInvariant == Spec => []StoreInv
<1>1. Init => StoreInv
  BY InitStores
<1>2. TypeInv /\ TypeInv' /\ ServedInv /\ StoreInv /\ [Next]_vars => StoreInv'
  BY NextStores
<1>3. QED
  BY <1>1, <1>2, TypeInvariant, ServedInvariant, PTL DEF Spec

(* However requests, verdicts, failures and closings interleave, the       *)
(* counters of an anonymous store are the numbers of its requests and of   *)
(* its subscriptions, and cleanup_anonymous_if_unused removes it with the  *)
(* last of them and no sooner.                                             *)
THEOREM AnonymousStoresAreCountedExactly == Spec => []AnonymousCountsAreExact
<1>1. StoreInv => AnonymousCountsAreExact
  BY DEF StoreInv, CountsAreExact, CountIsExact, AnonymousCountsAreExact, Requests, Followers
<1>2. QED
  BY <1>1, StoreInvariant, PTL

(* A named store is there only as long as its service is bound. *)
NamedStoresProvided == \A t \in Paths : stores[t] # Nil => services[t.service] # Nil

LEMMA NextProvided ==
    ASSUME TypeInv, NamedStoresProvided, [Next]_vars
    PROVE  NamedStoresProvided'
<1>1. \A t \in Paths : t.service \in ServiceNames
  BY DEF Paths, NamedTargets
<1>2. ASSUME SameProviders,
             \A t \in Paths : stores'[t] # Nil => stores[t] # Nil \/ services[t.service] # Nil
      PROVE  NamedStoresProvided'
  BY <1>1, <1>2 DEF NamedStoresProvided, SameProviders
<1>3. ASSUME NEW f \in FileIds, NEW shortage, Close(f, shortage)
      PROVE  NamedStoresProvided'
  BY <1>1, <1>3 DEF Close, NamedStoresProvided
<1>4. ASSUME UNCHANGED services, UNCHANGED stores
      PROVE  NamedStoresProvided'
  BY <1>4 DEF NamedStoresProvided
<1>5. ASSUME NEW f \in FileIds, NEW s \in ServiceNames, BindService(f, s) \/ FunctionCall(f, s)
      PROVE  NamedStoresProvided'
  <2>1. SameProviders /\ stores' = stores
    BY <1>5, BindKeepsProviders, FunctionCallKeepsProviders
    DEF BindService, FunctionCall, storeVars
  <2>2. QED
    BY <1>2, <2>1
<1>6. ASSUME NEW f \in FileIds, NEW shortage, InboxNextMessage(f, shortage)
      PROVE  NamedStoresProvided'
  <2>1. stores' = stores
    BY <1>6 DEF InboxNextMessage, storeVars
  <2>2. CASE PopMessage(f) \/ WouldBlock(f, shortage)
    BY <1>4, <2>1, <2>2 DEF PopMessage, WouldBlock
  <2>3. CASE \E s \in ServicesOf(f) : FlushRequests(f, s, shortage)
    BY <1>2, <2>1, <2>3, FlushKeepsProviders
  <2>4. QED
    BY <1>6, <2>2, <2>3 DEF InboxNextMessage
<1>7. ASSUME NEW f \in FileIds, NEW t \in Paths, NEW public, StoreCreate(f, t, public)
      PROVE  NamedStoresProvided'
  <2>1. services' = services /\ services[t.service] # Nil
    BY <1>7 DEF StoreCreate, Provides
  <2>2. \A u \in Paths : u # t => stores'[u] = stores[u]
    BY <1>7 DEF StoreCreate, TypeInv, TypeOK, StoreTypes
  <2>3. QED
    BY <2>1, <2>2 DEF NamedStoresProvided
<1>8. ASSUME NEW f \in FileIds, NEW t \in Paths, NEW shortage, StoreUpdate(f, t, shortage)
      PROVE  NamedStoresProvided'
  <2>1. /\ services' = services
        /\ stores' = stores \/ (stores[t] # Nil /\ \E x : stores' = [stores EXCEPT ![t] = x])
    BY <1>8 DEF StoreUpdate
  <2>2. QED
    BY <1>2, <2>1, UnchangedServices DEF TypeInv, TypeOK, StoreTypes
<1>9. ASSUME NEW f \in FileIds, Write(f)
      PROVE  NamedStoresProvided'
  BY <1>4, <1>7, <1>8, <1>9 DEF Write, AnonymousStoreCreate, AnonymousStoreUpdate
<1>10. ASSUME NEW f \in FileIds, Answer(f) \/ Subscribe(f) \/ Open(f) \/ UNCHANGED vars
       PROVE  NamedStoresProvided'
  <2>1. services' = services /\ stores' = stores
    BY <1>10 DEF Answer, Subscribe, FunctionCallReply, StoreSubscriptionReply, SubscribePublic,
       SubscribePrivate, AnonymousStoreSubscribe, StoreUnsubscribe, Open, storeVars, vars
  <2>2. QED
    BY <1>4, <2>1
<1>11. CASE UNCHANGED vars
  BY <1>4, <1>11 DEF vars
<1>12. CASE \E f \in FileIds :
               \/ Open(f)
               \/ \E s \in ServiceNames : BindService(f, s)
               \/ \E s \in ServiceNames : FunctionCall(f, s)
               \/ Answer(f)
               \/ \E shortage \in Shortages : InboxNextMessage(f, shortage)
               \/ Write(f)
               \/ Subscribe(f)
               \/ \E shortage \in Shortages : Close(f, shortage)
  BY <1>3, <1>5, <1>6, <1>9, <1>10, <1>12
<1>13. QED
  BY <1>11, <1>12 DEF Next

LEMMA ProvidedInvariant == Spec => []NamedStoresProvided
<1>1. Init => NamedStoresProvided
  BY DEF Init, NamedStoresProvided
<1>2. TypeInv /\ NamedStoresProvided /\ [Next]_vars => NamedStoresProvided'
  BY NextProvided
<1>3. QED
  BY <1>1, <1>2, TypeInvariant, PTL DEF Spec

(* What subscriptions hang on is there: no order of creations, requests,   *)
(* verdicts and closings leaves a subscription, or a request for one, to a *)
(* store that is gone, or at a file that does not provide it any more.     *)
THEOREM SubscriptionsHangOnLiveStores == Spec => []SubscriptionsAreAnchored
<1>1. TypeInv /\ ServedInv /\ StoreInv /\ NamedStoresProvided => SubscriptionsAreAnchored
  <2> SUFFICES ASSUME TypeInv, ServedInv, StoreInv, NamedStoresProvided
               PROVE  SubscriptionsAreAnchored
    OBVIOUS
  <2>1. /\ \A s \in subs : Exists(s.target)
        /\ \A p \in subTokens.pending : Exists(p.target)
    BY UsedStoresExist DEF StoreInv, NamedStoresExist, Exists
  <2>2. \A p \in subTokens.pending : Provides(p.service, ServiceOf(p.target))
    BY DEF StoreInv, ProvidersAreAsked
  <2>3. \A a \in AnonymousIds :
           anonymous[a] # Nil => Provides(anonymous[a].owner, anonymous[a].service)
    BY DEF ServedInv, OwnersProvide, Provides
  <2>4. QED
    BY <2>1, <2>2, <2>3 DEF NamedStoresProvided, SubscriptionsAreAnchored
<1>2. QED
  BY <1>1, TypeInvariant, ServedInvariant, StoreInvariant, ProvidedInvariant, PTL

-------------------------------------------------------------------------------
(***************************************************************************)
(* Who is told.  When every inbox can be allocated, no command ends before *)
(* its messages are queued.                                                *)
(***************************************************************************)
LEMMA SentIsNew ==
    ASSUME TypeInv, NEW f \in FileIds, NEW m \in Message, inboxes' = Send(inboxes, f, m, {})
    PROVE  m \in NewMessages(f)
<1> DEFINE old == Ensure(inboxes[f]).messages
<1>1. inboxes[f] \in MaybeInbox(Message)
  BY DEF TypeInv, TypeOK, CallTypes, MaybeInbox
<1>2. Ensure(inboxes[f]) \in Inbox(Message)
  BY <1>1, EnsureIsInbox
<1>3. old \in Seq(Message)
  BY <1>2 DEF Inbox
<1>4. inboxes'[f] = QueueAll(inboxes[f], <<m>>)
  BY DEF Send, TypeInv, TypeOK, CallTypes
<1>5. inboxes'[f] # Nil
  <2>1. <<m>> \in Seq(Message)
    OBVIOUS
  <2>2. inboxes'[f] \in Inbox(Message)
    BY <1>1, <1>4, <2>1, QueueAllIsInbox
  <2>3. QED
    BY <2>2, NilAssumption
<1>6. inboxes'[f].messages = old \o <<m>>
  BY <1>4 DEF QueueAll
<1>7. MessagesOf(f) = old
  BY <1>1 DEF MessagesOf, Ensure, NewInbox
<1> HIDE DEF old
<1>8. /\ Len(inboxes'[f].messages) = Len(old) + 1
      /\ inboxes'[f].messages[Len(old) + 1] = m
      /\ Len(old) \in Nat
  BY <1>3, <1>6
<1>9. QED
  BY <1>5, <1>7, <1>8 DEF NewMessages

(* The commands that take a request out of the table. *)
NoVerdict == open' = open => subTokens.pending \subseteq subTokens'.pending

LEMMA OnlyRepliesGiveVerdicts ==
    ASSUME TypeInv, AllocMayFail = FALSE, [Next]_vars
    PROVE  \/ NoVerdict
           \/ \E f \in FileIds, accepted \in BOOLEAN : \E m :
                 StoreSubscriptionReply(f, m, accepted, {})
<1>1. Shortages = {{}}
  BY DEF Shortages
<1>2. CASE UNCHANGED vars
  BY <1>2 DEF vars, NoVerdict
<1>3. ASSUME NEW f \in FileIds, Open(f) \/ \E shortage \in Shortages : Close(f, shortage)
      PROVE  NoVerdict
  BY <1>3 DEF Open, Close, NoVerdict
<1>4. ASSUME NEW f \in FileIds,
             \/ \E s \in ServiceNames : BindService(f, s) \/ FunctionCall(f, s)
             \/ \E shortage \in Shortages : InboxNextMessage(f, shortage)
      PROVE  NoVerdict
  BY <1>4 DEF BindService, FunctionCall, InboxNextMessage, tables, NoVerdict
<1>5. ASSUME NEW f \in FileIds, Write(f)
      PROVE  NoVerdict
  BY <1>5 DEF Write, StoreCreate, StoreUpdate, AnonymousStoreCreate, AnonymousStoreUpdate,
     tables, NoVerdict
<1>6. ASSUME NEW f \in FileIds, Subscribe(f)
      PROVE  NoVerdict
  <2>1. ASSUME NEW id, NEW target, NEW service, Ask(f, id, target, service, {})
        PROVE  NoVerdict
    BY <2>1, AskAdds DEF NoVerdict
  <2>2. ASSUME NEW t, NEW id, SubscribePrivate(f, t, id, {})
        PROVE  NoVerdict
    BY <2>1, <2>2 DEF SubscribePrivate
  <2>3. ASSUME NEW a, NEW id, AnonymousStoreSubscribe(f, a, id, {})
        PROVE  NoVerdict
    BY <2>1, <2>3 DEF AnonymousStoreSubscribe
  <2>4. ASSUME NEW t, NEW id, SubscribePublic(f, t, id, {}) \/ StoreUnsubscribe(f, id, {})
        PROVE  NoVerdict
    BY <2>4 DEF SubscribePublic, StoreUnsubscribe, tables, NoVerdict
  <2>5. QED
    BY <1>1, <1>6, <2>2, <2>3, <2>4 DEF Subscribe
<1>7. ASSUME NEW f \in FileIds, Answer(f)
      PROVE  \/ NoVerdict
             \/ \E accepted \in BOOLEAN : \E m : StoreSubscriptionReply(f, m, accepted, {})
  <2>1. ASSUME NEW m, NEW badFds, NEW shortage, FunctionCallReply(f, m, badFds, shortage)
        PROVE  NoVerdict
    BY <2>1 DEF FunctionCallReply, NoVerdict
  <2>2. QED
    BY <1>1, <1>7, <2>1 DEF Answer
<1>8. CASE \E f \in FileIds :
              \/ Open(f)
              \/ \E s \in ServiceNames : BindService(f, s)
              \/ \E s \in ServiceNames : FunctionCall(f, s)
              \/ Answer(f)
              \/ \E shortage \in Shortages : InboxNextMessage(f, shortage)
              \/ Write(f)
              \/ Subscribe(f)
              \/ \E shortage \in Shortages : Close(f, shortage)
  BY <1>3, <1>4, <1>5, <1>6, <1>7, <1>8
<1>9. QED
  BY <1>2, <1>8 DEF Next

LEMMA VerdictIsSent ==
    ASSUME TypeInv, StoreInv, NEW p \in subTokens.pending,
           \/ ~IsAnonymous(p.target) /\ AcceptNamed(p, {})
           \/ IsAnonymous(p.target) /\ AcceptAnonymous(p, {})
           \/ Reject(p, {})
    PROVE  \/ Told(p.client, {"Accepted", "Rejected"}, p.target, p.id)
           \/ Subscribed(subs, p.client, p.id)
<1>1. p.client \in FileIds /\ p.target \in Targets /\ p.id \in SubIds
  BY DEF TypeInv, TypeOK, StoreTypes, PendingSubscription
<1>2. ASSUME NEW v \in Nat,
             inboxes' = Send(inboxes, p.client, ValueMessage("Accepted", p.target, p.id, v), {})
      PROVE  Told(p.client, {"Accepted", "Rejected"}, p.target, p.id)
  <2> DEFINE m == ValueMessage("Accepted", p.target, p.id, v)
  <2>1. m \in Message
    BY <1>1, MessageTypes
  <2>2. m \in NewMessages(p.client)
    BY <1>1, <1>2, <2>1, SentIsNew
  <2>3. QED
    BY <2>2 DEF Told, ValueMessage
<1>3. ASSUME inboxes' = Send(inboxes, p.client, EndMessage("Rejected", p.target, p.id), {})
      PROVE  Told(p.client, {"Accepted", "Rejected"}, p.target, p.id)
  <2> DEFINE m == EndMessage("Rejected", p.target, p.id)
  <2>1. m \in Message
    BY <1>1, MessageTypes
  <2>2. m \in NewMessages(p.client)
    BY <1>1, <1>3, <2>1, SentIsNew
  <2>3. QED
    BY <2>2 DEF Told, EndMessage
<1>4. CASE ~IsAnonymous(p.target) /\ AcceptNamed(p, {})
  <2>1. stores[p.target] # Nil
    BY <1>4 DEF StoreInv, NamedStoresExist
  <2>2. stores[p.target].value \in Nat
    <3>1. p.target \in Paths
      BY <1>1, <1>4, TargetTypes
    <3>2. QED
      BY <2>1, <3>1 DEF TypeInv, TypeOK, StoreTypes, NamedStore
  <2>3. QED
    BY <1>2, <1>4, <2>1, <2>2 DEF AcceptNamed
<1>5. CASE IsAnonymous(p.target) /\ AcceptAnonymous(p, {})
  <2>1. p.target.anonymous \in AnonymousIds /\ anonymous[p.target.anonymous] # Nil
    BY <1>5, UsedStoresExist DEF StoreInv
  <2>2. anonymous[p.target.anonymous].value \in Nat
    BY <2>1 DEF TypeInv, TypeOK, StoreTypes, AnonymousStore
  <2>3. QED
    BY <1>2, <1>5, <2>1, <2>2 DEF AcceptAnonymous
<1>6. CASE Reject(p, {})
  BY <1>3, <1>6 DEF Reject
<1>7. QED
  BY <1>4, <1>5, <1>6

(* When inboxes can be allocated, a request never leaves the table without *)
(* a word to the client: the store it is for is there whenever the verdict *)
(* comes, so the errors execute_store_subscription_reply may have after it *)
(* used the token up do not happen, but for an id the client used twice.   *)
THEOREM NoVerdictIsLost ==
    ASSUME AllocMayFail = FALSE
    PROVE  Spec => VerdictsAreTold
<1> DEFINE Verdicts == open' = open =>
              \A p \in subTokens.pending \ subTokens'.pending :
                  \/ Told(p.client, {"Accepted", "Rejected"}, p.target, p.id)
                  \/ Subscribed(subs, p.client, p.id)
<1>1. TypeInv /\ StoreInv /\ [Next]_vars => [Verdicts]_vars
  <2> SUFFICES ASSUME TypeInv, StoreInv, [Next]_vars, open' = open,
                      NEW p \in subTokens.pending, p \notin subTokens'.pending
               PROVE  \/ Told(p.client, {"Accepted", "Rejected"}, p.target, p.id)
                      \/ Subscribed(subs, p.client, p.id)
    OBVIOUS
  <2> PICK f \in FileIds, accepted \in BOOLEAN :
         \E m : StoreSubscriptionReply(f, m, accepted, {})
    BY OnlyRepliesGiveVerdicts DEF NoVerdict
  <2>1. PICK m : StoreSubscriptionReply(f, m, accepted, {})
    OBVIOUS
  <2>2. PICK q \in Consumable(subTokens, m.token, f) :
           /\ subTokens' = Discard(subTokens, Consumable(subTokens, m.token, f))
           /\ \/ ~IsAnonymous(q.target) /\ AcceptNamed(q, {})
              \/ IsAnonymous(q.target) /\ AcceptAnonymous(q, {})
              \/ Reject(q, {})
    BY <2>1 DEF StoreSubscriptionReply
  <2>3. Consumable(subTokens, m.token, f) = {q} /\ q \in subTokens.pending
    BY OneRequestConsumed
  <2>4. subTokens'.pending = subTokens.pending \ {q}
    BY <2>2, <2>3 DEF Discard, TypeInv, TypeOK, StoreTypes
  <2>5. p = q
    BY <2>4
  <2>6. QED
    BY <2>2, <2>3, <2>5, VerdictIsSent
<1>2. QED
  BY <1>1, TypeInvariant, StoreInvariant, PTL DEF Spec, VerdictsAreTold

(* When a connection closes and inboxes can be allocated, everyone it      *)
(* leaves behind is told in the same step, in whatever order clean-up goes *)
(* through the services and through its hash maps.                         *)
THEOREM NobodyIsLeftInTheDark ==
    ASSUME AllocMayFail = FALSE
    PROVE  Spec => ClosingIsTold
<1> DEFINE Closing == open' # open =>
        /\ \A s \in subs \ subs' :
              s.file \in open' => Told(s.file, {"Closed"}, s.target, s.id)
        /\ \A p \in subTokens.pending \ subTokens'.pending : p.client \in open' =>
              IF IsAnonymous(p.target) THEN Told(p.client, {"Closed"}, p.target, p.id)
              ELSE inboxes[p.client] # Nil => ToldServiceClosed(p.client, p.target.service)
<1>1. TypeInv /\ StoreInv /\ [Next]_vars => [Closing]_vars
  <2> SUFFICES ASSUME TypeInv, StoreInv, Next, open' # open
               PROVE  Closing
    OBVIOUS
  <2>1. Shortages = {{}}
    BY DEF Shortages
  <2>2. PICK f \in FileIds : Open(f) \/ Close(f, {})
    <3>1. ASSUME NEW g, Answer(g) \/ Write(g) \/ Subscribe(g)
          PROVE  open' = open
      BY <3>1 DEF Answer, FunctionCallReply, StoreSubscriptionReply, Write, StoreCreate,
         StoreUpdate, AnonymousStoreCreate, AnonymousStoreUpdate, Subscribe, SubscribePublic,
         SubscribePrivate, AnonymousStoreSubscribe, StoreUnsubscribe, bookkeeping
    <3>2. ASSUME NEW g, NEW x, BindService(g, x) \/ FunctionCall(g, x) \/ InboxNextMessage(g, x)
          PROVE  open' = open
      BY <3>2 DEF BindService, FunctionCall, InboxNextMessage, bookkeeping
    <3>3. QED
      BY <2>1, <3>1, <3>2 DEF Next
  <2>3. CASE Open(f)
    BY <2>3 DEF Open, tables
  <2>4. CASE Close(f, {})
    <3>1. /\ open' = open \ {f}
          /\ subTokens'.pending = subTokens.pending \ EntriesOf(subTokens, f)
          /\ subs' = subs \ (OwnSubscriptions(f) \union OrphanedSubscriptions(f))
      BY <2>4 DEF Close, Discard, TypeInv, TypeOK, StoreTypes
    <3>2. PICK rank, earlier :
             \A n \in PendingNotices(f) \union ExitNotices(f, rank)
                         \union ServiceClosedNotices(f, rank, earlier) :
                 n.to \in FileIds \ {f} => n.message \in NewMessages(n.to)
      BY <2>4, CloseDelivers
    <3>3. ASSUME NEW s \in subs \ subs', s.file \in open'
          PROVE  Told(s.file, {"Closed"}, s.target, s.id)
      <4> DEFINE m == EndMessage("Closed", s.target, s.id)
                 n == Notice(s.file, 3 * rank[ServiceOf(s.target)]
                                + (IF IsAnonymous(s.target) THEN 1 ELSE 0), s.id, m)
      <4>1. s \in OrphanedSubscriptions(f)
        BY <3>1, <3>3 DEF OwnSubscriptions
      <4>2. n \in ExitNotices(f, rank) /\ n.to = s.file /\ n.message = m
        BY <4>1 DEF ExitNotices, Notice
      <4>3. s.file \in FileIds \ {f}
        BY <3>1, <3>3 DEF TypeInv, TypeOK, StoreTypes, Subscription
      <4> HIDE DEF n
      <4>4. m \in NewMessages(s.file)
        BY <3>2, <4>2, <4>3
      <4>5. QED
        BY <4>4 DEF Told, EndMessage
    <3>4. ASSUME NEW p \in subTokens.pending \ subTokens'.pending, p.client \in open'
          PROVE  IF IsAnonymous(p.target) THEN Told(p.client, {"Closed"}, p.target, p.id)
                 ELSE inboxes[p.client] # Nil => ToldServiceClosed(p.client, p.target.service)
      <4>1. /\ p \in EntriesOf(subTokens, f)
            /\ p.client \in FileIds \ {f}
            /\ p.service = f
        BY <3>1, <3>4 DEF EntriesOf, TypeInv, TypeOK, StoreTypes, PendingSubscription
      <4>2. CASE IsAnonymous(p.target)
        <5> DEFINE m == EndMessage("Closed", p.target, p.id)
                   n == Notice(IF p.client = f THEN p.service ELSE p.client, 1, p.token, m)
        <5>1. n \in PendingNotices(f) /\ n.to = p.client /\ n.message = m
          BY <4>1, <4>2 DEF PendingNotices, Notice
        <5> HIDE DEF n
        <5>2. m \in NewMessages(p.client)
          BY <3>2, <4>1, <5>1
        <5>3. QED
          BY <4>2, <5>2 DEF Told, EndMessage
      <4>3. CASE ~IsAnonymous(p.target) /\ inboxes[p.client] # Nil
        <5> DEFINE s == p.target.service
                   m == [type |-> "ServiceClosed", service |-> s]
                   n == Notice(p.client, 3 * rank[s] + 2, 0, m)
        <5>1. s \in ServicesOf(f)
          <6>1. ServiceOf(p.target) \in ServiceNames /\ Provides(p.service, ServiceOf(p.target))
            BY ServiceOfRequest DEF StoreInv, ProvidersAreAsked
          <6>2. QED
            BY <4>1, <4>3, <6>1 DEF ServiceOf, Provides, ServicesOf
        <5>2. n \in ServiceClosedNotices(f, rank, earlier)
          <6> DEFINE y == <<p.client, s>>
          <6>1. /\ y \in (FileIds \ {f}) \X ServicesOf(f)
                /\ inboxes[y[1]] # Nil
            BY <4>1, <4>3, <5>1
          <6>2. n = Notice(y[1], 3 * rank[y[2]] + 2, 0,
                           [type |-> "ServiceClosed", service |-> y[2]])
            OBVIOUS
          <6> HIDE DEF y, n
          <6>3. QED
            BY <6>1, <6>2 DEF ServiceClosedNotices
        <5>3. n.to = p.client /\ n.message = m
          BY DEF Notice
        <5> HIDE DEF n
        <5>4. m \in NewMessages(p.client)
          BY <3>2, <4>1, <5>2, <5>3
        <5>5. QED
          BY <4>3, <5>4 DEF ToldServiceClosed
      <4>4. QED
        BY <4>2, <4>3
    <3>5. QED
      BY <3>3, <3>4
  <2>5. QED
    BY <2>2, <2>3, <2>4
<1>2. QED
  BY <1>1, TypeInvariant, StoreInvariant, PTL DEF Spec, ClosingIsTold

-------------------------------------------------------------------------------
(***************************************************************************)
(* Values in the order they were written.  ValuesArriveInOrder says        *)
(* nothing of a value that is still to be sent: the invariant adds that    *)
(* every value in an inbox is from the past, and none is newer than what   *)
(* the store has now, if the store still exists.  A store that is created  *)
(* again under its path begins with a value newer than all others.         *)
(***************************************************************************)
IsValue(m) == m.type \in {"Accepted", "Updated"}
ValueIs(f, i, m) == i \in DOMAIN MessagesOf(f) /\ m = MessagesOf(f)[i] /\ IsValue(m)
SameSubscription(x, y) == x.id = y.id /\ x.target = y.target
InOrder(x, y) ==
    SameSubscription(x, y) => x.value <= y.value /\ (y.type = "Updated" => x.value < y.value)

StoresArePast == \A t \in Targets : Exists(t) => Current(t) < nextTimestamp
ValuesArePast ==
    \A f \in FileIds, i \in Nat : \A m : ValueIs(f, i, m) =>
        m.value < nextTimestamp /\ (Exists(m.target) => m.value <= Current(m.target))
ValuesInOrder ==
    \A f \in FileIds, i, j \in Nat : \A x, y :
        i < j /\ ValueIs(f, i, x) /\ ValueIs(f, j, y) => InOrder(x, y)

ValuesInv == StoresArePast /\ ValuesArePast /\ ValuesInOrder

ValuesAreTyped ==
    /\ nextTimestamp \in Nat
    /\ \A t \in Targets : Exists(t) => Current(t) \in Nat
    /\ \A f \in FileIds, i \in Nat : \A m : ValueIs(f, i, m) =>
          m \in Message /\ m.value \in Nat /\ m.target \in Targets

LEMMA ValueTypes == TypeInv => ValuesAreTyped
<1> SUFFICES ASSUME TypeInv PROVE ValuesAreTyped
  OBVIOUS
<1>1. nextTimestamp \in Nat
  BY DEF TypeInv, TypeOK, StoreTypes
<1>2. ASSUME NEW t \in Targets, Exists(t) PROVE Current(t) \in Nat
  <2>1. CASE IsAnonymous(t)
    <3>1. anonymous[t.anonymous] \in AStore
      BY <1>2, <2>1, TargetTypes DEF Exists, TypeInv, TypeOK, StoreTypes, AStore
    <3>2. QED
      BY <2>1, <3>1 DEF Current, AStore, AnonymousStore
  <2>2. CASE ~IsAnonymous(t)
    <3>1. stores[t] \in NamedStore
      BY <1>2, <2>2, TargetTypes DEF Exists, TypeInv, TypeOK, StoreTypes
    <3>2. QED
      BY <2>2, <3>1 DEF Current, NamedStore
  <2>3. QED
    BY <2>1, <2>2
<1>3. ASSUME NEW f \in FileIds, NEW i \in Nat, NEW m, ValueIs(f, i, m)
      PROVE  m \in Message /\ m.value \in Nat /\ m.target \in Targets
  <2>1. MessagesOf(f) \in Seq(Message)
    BY InboxesAreTyped
  <2>2. i \in 1 .. Len(MessagesOf(f))
    BY <1>3, <2>1, LenProperties DEF ValueIs
  <2>3. m \in Message
    BY <1>3, <2>1, <2>2, ElementOfSeq DEF ValueIs
  <2>4. QED
    BY <1>3, <2>3, MessageKinds DEF ValueIs, IsValue
<1>4. QED
  BY <1>1, <1>2, <1>3 DEF ValuesAreTyped

LEMMA ValueTypesAfter == TypeInv' => ValuesAreTyped'
BY ValueTypes, PTL

LEMMA ValuesInvSuffices == TypeInv /\ ValuesInv => ValuesArriveInOrder
<1> SUFFICES ASSUME TypeInv, ValuesInv, NEW f \in FileIds,
                    NEW i \in DOMAIN MessagesOf(f), NEW j \in DOMAIN MessagesOf(f), i < j,
                    MessagesOf(f)[i].type \in {"Accepted", "Updated"},
                    MessagesOf(f)[j].type \in {"Accepted", "Updated"},
                    MessagesOf(f)[i].id = MessagesOf(f)[j].id,
                    MessagesOf(f)[i].target = MessagesOf(f)[j].target
             PROVE  /\ MessagesOf(f)[i].value <= MessagesOf(f)[j].value
                    /\ MessagesOf(f)[j].type = "Updated" =>
                          MessagesOf(f)[i].value < MessagesOf(f)[j].value
  BY DEF ValuesArriveInOrder
<1>1. i \in Nat /\ j \in Nat
  <2>1. MessagesOf(f) \in Seq(Message)
    BY InboxesAreTyped
  <2>2. DOMAIN MessagesOf(f) = 1 .. Len(MessagesOf(f))
    BY <2>1, LenProperties
  <2>3. QED
    BY <2>2
<1>2. ValueIs(f, i, MessagesOf(f)[i]) /\ ValueIs(f, j, MessagesOf(f)[j])
  BY DEF ValueIs, IsValue
<1>3. InOrder(MessagesOf(f)[i], MessagesOf(f)[j])
  BY <1>1, <1>2 DEF ValuesInv, ValuesInOrder
<1>4. QED
  BY <1>3 DEF InOrder, SameSubscription

(* A store keeps its value in a step, or has one that is newer than all    *)
(* before.  What is new in an inbox is the value that its store has after  *)
(* the step; and there is one message for each subscription.               *)
TimeGoesOn ==
    /\ nextTimestamp <= nextTimestamp'
    /\ \A t \in Targets : Exists(t)' =>
          \/ Exists(t) /\ Current(t)' = Current(t)
          \/ Current(t)' = nextTimestamp /\ nextTimestamp < nextTimestamp'
Fresh(m) ==
    /\ m.target \in Targets /\ Exists(m.target)' /\ m.value = Current(m.target)'
    /\ m.type = "Updated" => m.value = nextTimestamp /\ nextTimestamp < nextTimestamp'

ArrivesAfter(f, k) ==
    /\ \A i \in Nat : \A m : ValueIs(f, i, m)' =>
          \/ ValueIs(f, i + k, m)
          \/ i + k > Len(MessagesOf(f)) /\ Fresh(m)
    /\ \A i, j \in Nat : \A x, y :
          i < j /\ ValueIs(f, i, x)' /\ ValueIs(f, j, y)' /\ i + k > Len(MessagesOf(f)) =>
              ~SameSubscription(x, y)
ArrivesInOrder(f) == \E k \in Nat : ArrivesAfter(f, k)

ValueStep == TimeGoesOn /\ \A f \in FileIds : ArrivesInOrder(f)

LEMMA ValueStepKeepsInv ==
    ASSUME TypeInv, TypeInv', ValuesInv, ValueStep
    PROVE  ValuesInv'
<1>1. /\ nextTimestamp \in Nat /\ nextTimestamp' \in Nat /\ nextTimestamp <= nextTimestamp'
      /\ \A t \in Targets : Exists(t) => Current(t) \in Nat
      /\ \A t \in Targets : Exists(t)' => Current(t)' \in Nat
  BY ValueTypes, ValueTypesAfter DEF ValuesAreTyped, ValueStep, TimeGoesOn
<1>2. StoresArePast'
  <2> SUFFICES ASSUME NEW t \in Targets, Exists(t)' PROVE Current(t)' < nextTimestamp'
    BY DEF StoresArePast
  <2>1. Exists(t) => Current(t) < nextTimestamp
    BY DEF ValuesInv, StoresArePast
  <2>2. \/ Exists(t) /\ Current(t)' = Current(t)
        \/ Current(t)' = nextTimestamp /\ nextTimestamp < nextTimestamp'
    BY DEF ValueStep, TimeGoesOn
  <2>3. QED
    BY <1>1, <2>1, <2>2
<1>3. ASSUME NEW f \in FileIds, NEW k \in Nat, ArrivesAfter(f, k), NEW i \in Nat, NEW m,
             ValueIs(f, i, m)'
      PROVE  m.value < nextTimestamp' /\ (Exists(m.target)' => m.value <= Current(m.target)')
  <2>2. m.value \in Nat /\ m.target \in Targets
    BY <1>3, ValueTypesAfter DEF ValuesAreTyped
  <2>3. ValueIs(f, i + k, m) \/ Fresh(m)
    BY <1>3 DEF ArrivesAfter
  <2>4. CASE ValueIs(f, i + k, m)
    <3>1. m.value < nextTimestamp /\ (Exists(m.target) => m.value <= Current(m.target))
      BY <2>4 DEF ValuesInv, ValuesArePast
    <3>2. Exists(m.target)' =>
             \/ Exists(m.target) /\ Current(m.target)' = Current(m.target)
             \/ Current(m.target)' = nextTimestamp
      BY <2>2 DEF ValueStep, TimeGoesOn
    <3>3. QED
      BY <1>1, <2>2, <3>1, <3>2
  <2>5. CASE Fresh(m)
    <3>1. m.value = Current(m.target)' /\ Current(m.target)' < nextTimestamp'
      BY <1>2, <2>5 DEF Fresh, StoresArePast
    <3>2. QED
      BY <2>2, <3>1
  <2>6. QED
    BY <2>3, <2>4, <2>5
<1>4. ValuesArePast'
  BY <1>3 DEF ValuesArePast, ValueStep, ArrivesInOrder
<1>5. ValuesInOrder'
  <2> SUFFICES ASSUME NEW f \in FileIds, NEW i \in Nat, NEW j \in Nat, NEW x, NEW y,
                      i < j, ValueIs(f, i, x)', ValueIs(f, j, y)', SameSubscription(x, y)
               PROVE  x.value <= y.value /\ (y.type = "Updated" => x.value < y.value)
    BY DEF ValuesInOrder, InOrder
  <2>1. PICK k \in Nat : ArrivesAfter(f, k)
    BY DEF ValueStep, ArrivesInOrder
  <2>2. x.value \in Nat /\ y.value \in Nat /\ x.target = y.target /\ y.target \in Targets
    BY ValueTypesAfter DEF ValuesAreTyped, SameSubscription
  <2>3. ~(i + k > Len(MessagesOf(f)))
    BY <2>1 DEF ArrivesAfter
  <2>4. ValueIs(f, i + k, x)
    BY <2>1, <2>3 DEF ArrivesAfter
  <2>5. ValueIs(f, j + k, y) \/ Fresh(y)
    BY <2>1 DEF ArrivesAfter
  <2>6. i + k \in Nat /\ j + k \in Nat /\ i + k < j + k
    OBVIOUS
  <2>7. CASE ValueIs(f, j + k, y)
    BY <2>4, <2>6, <2>7 DEF ValuesInv, ValuesInOrder, InOrder
  <2>8. CASE Fresh(y)
    <3>1. x.value < nextTimestamp /\ (Exists(x.target) => x.value <= Current(x.target))
      BY <2>4, <2>6 DEF ValuesInv, ValuesArePast
    <3>2. /\ y.value = Current(y.target)'
          /\ \/ Exists(y.target) /\ Current(y.target)' = Current(y.target)
             \/ Current(y.target)' = nextTimestamp
          /\ y.type = "Updated" => y.value = nextTimestamp
      BY <2>2, <2>8 DEF Fresh, ValueStep, TimeGoesOn
    <3>3. QED
      BY <1>1, <2>2, <3>1, <3>2
  <2>9. QED
    BY <2>5, <2>7, <2>8
<1>6. QED
  BY <1>2, <1>4, <1>5 DEF ValuesInv

(* What commands append to an inbox. *)
LEMMA NoValueArrives ==
    ASSUME TypeInv, TypeInv', NEW f \in FileIds, NEW A, \A m \in A : ~IsValue(m),
           \/ Extended(Messages(inboxes'[f]), Messages(inboxes[f]), A)
           \/ Extended(Messages(inboxes'[f]), <<>>, A)
    PROVE  ArrivesInOrder(f)
<1>1. /\ MessagesOf(f) = Messages(inboxes[f]) /\ MessagesOf(f)' = Messages(inboxes'[f])
      /\ MessagesOf(f) \in Seq(Message) /\ Len(MessagesOf(f)) \in Nat
  BY InboxesAreTyped, PrimedMessages
<1>2. MessagesOf(f)' \in Seq(Message) /\ Len(MessagesOf(f)') \in Nat
  <2>1. inboxes'[f] \in MaybeInbox(Message)
    BY DEF TypeInv, TypeOK, CallTypes, MaybeInbox
  <2>2. QED
    BY <1>1, <2>1, MessagesAreSeq
<1>3. DOMAIN MessagesOf(f) = 1 .. Len(MessagesOf(f)) /\ DOMAIN MessagesOf(f)' = 1 .. Len(MessagesOf(f)')
  BY <1>1, <1>2, LenProperties
<1>4. \A i \in Nat : \A m : ValueIs(f, i, m)' => ValueIs(f, i, m) /\ i <= Len(MessagesOf(f))
  <2> SUFFICES ASSUME NEW i \in Nat, NEW m, ValueIs(f, i, m)'
               PROVE  ValueIs(f, i, m) /\ i <= Len(MessagesOf(f))
    OBVIOUS
  <2>1. i \in 1 .. Len(MessagesOf(f)') /\ m = MessagesOf(f)'[i] /\ IsValue(m)
    BY <1>3 DEF ValueIs
  <2>2. CASE Extended(Messages(inboxes'[f]), Messages(inboxes[f]), A)
    <3>1. i \in 1 .. Len(MessagesOf(f)) \/ i \in Len(MessagesOf(f)) + 1 .. Len(MessagesOf(f)')
      BY <1>1, <1>2, <2>1
    <3>2. ~(i \in Len(MessagesOf(f)) + 1 .. Len(MessagesOf(f)'))
      BY <1>1, <2>1, <2>2 DEF Extended
    <3>3. i \in 1 .. Len(MessagesOf(f)) /\ m = MessagesOf(f)[i]
      BY <1>1, <2>1, <2>2, <3>1, <3>2 DEF Extended
    <3>4. i <= Len(MessagesOf(f))
      BY <1>1, <3>3
    <3>5. QED
      BY <1>3, <2>1, <3>3, <3>4 DEF ValueIs
  <2>3. CASE Extended(Messages(inboxes'[f]), <<>>, A)
    <3>1. \A j \in 1 .. Len(MessagesOf(f)') : MessagesOf(f)'[j] \in A
      BY <1>1, <2>3 DEF Extended
    <3>2. QED
      BY <2>1, <3>1
  <2>4. QED
    BY <2>2, <2>3
<1>5. \A i \in Nat : i + 0 = i
  OBVIOUS
<1>6. ArrivesAfter(f, 0)
  <2>1. \A i \in Nat : \A m : ValueIs(f, i, m)' => ValueIs(f, i + 0, m)
    BY <1>4, <1>5
  <2>2. \A i \in Nat : \A m : ValueIs(f, i, m)' => ~(i + 0 > Len(MessagesOf(f)))
    BY <1>1, <1>4
  <2>3. QED
    BY <2>1, <2>2 DEF ArrivesAfter
<1>7. QED
  BY <1>6 DEF ArrivesInOrder

LEMMA PoppedInOrder ==
    ASSUME TypeInv, TypeInv', NEW f \in FileIds, PopMessage(f), NEW g \in FileIds
    PROVE  ArrivesInOrder(g)
<1>1. /\ g # f => MessagesOf(g)' = MessagesOf(g)
      /\ DOMAIN MessagesOf(f)' = 1 .. Len(MessagesOf(f)) - 1
      /\ \A i \in 1 .. Len(MessagesOf(f)) - 1 :
            MessagesOf(f)'[i] = MessagesOf(f)[i + 1] /\ i + 1 \in 1 .. Len(MessagesOf(f))
  BY PoppedMessages
<1>2. \A h \in FileIds : DOMAIN MessagesOf(h) = 1 .. Len(MessagesOf(h)) /\ Len(MessagesOf(h)) \in Nat
  BY InboxesAreTyped, LenProperties
<1>3. PICK k \in Nat : k = IF g = f THEN 1 ELSE 0
  OBVIOUS
<1>4. \A i \in Nat : \A m : ValueIs(g, i, m)' => ValueIs(g, i + k, m)
  <2> SUFFICES ASSUME NEW i \in Nat, NEW m, ValueIs(g, i, m)' PROVE ValueIs(g, i + k, m)
    OBVIOUS
  <2>1. CASE g = f
    BY <1>1, <1>2, <1>3, <2>1 DEF ValueIs
  <2>2. CASE g # f
    <3>1. i + k = i
      BY <1>3, <2>2
    <3>2. QED
      BY <1>1, <2>2, <3>1 DEF ValueIs
  <2>3. QED
    BY <2>1, <2>2
<1>5. \A i \in Nat : \A m : ValueIs(g, i, m)' => ~(i + k > Len(MessagesOf(g)))
  <2>1. \A i \in Nat : \A m : ValueIs(g, i, m)' => i + k \in 1 .. Len(MessagesOf(g))
    BY <1>2, <1>4 DEF ValueIs
  <2>2. QED
    BY <1>2, <2>1
<1>6. QED
  BY <1>4, <1>5 DEF ArrivesInOrder, ArrivesAfter

LEMMA SentInOrder ==
    ASSUME TypeInv, TypeInv', NEW f \in FileIds, NEW m \in Message, NEW shortage,
           inboxes' = Send(inboxes, f, m, shortage), IsValue(m) => Fresh(m), NEW g \in FileIds
    PROVE  ArrivesInOrder(g)
<1>1. MessagesOf(g)' = IF g = f /\ f \notin shortage THEN Append(MessagesOf(g), m) ELSE MessagesOf(g)
  BY SentMessages
<1>2. /\ MessagesOf(g) \in Seq(Message) /\ Len(MessagesOf(g)) \in Nat
      /\ DOMAIN MessagesOf(g) = 1 .. Len(MessagesOf(g))
  BY InboxesAreTyped, LenProperties
<1>3. /\ DOMAIN Append(MessagesOf(g), m) = 1 .. Len(MessagesOf(g)) + 1
      /\ \A i \in 1 .. Len(MessagesOf(g)) : Append(MessagesOf(g), m)[i] = MessagesOf(g)[i]
      /\ Append(MessagesOf(g), m)[Len(MessagesOf(g)) + 1] = m
  BY <1>2, AppendProperties
<1>4. ASSUME NEW i \in Nat, NEW x, ValueIs(g, i, x)'
      PROVE  \/ ValueIs(g, i, x) /\ i <= Len(MessagesOf(g))
             \/ i = Len(MessagesOf(g)) + 1 /\ Fresh(x)
  <2>1. CASE g = f /\ f \notin shortage
    <3>1. /\ i \in 1 .. Len(MessagesOf(g)) + 1 /\ x = Append(MessagesOf(g), m)[i] /\ IsValue(x)
      BY <1>1, <1>3, <1>4, <2>1 DEF ValueIs
    <3>2. CASE i = Len(MessagesOf(g)) + 1
      BY <1>3, <3>1, <3>2
    <3>3. CASE i # Len(MessagesOf(g)) + 1
      <4>1. i \in 1 .. Len(MessagesOf(g)) /\ i <= Len(MessagesOf(g))
        BY <1>2, <3>1, <3>3
      <4>2. QED
        BY <1>2, <1>3, <3>1, <4>1 DEF ValueIs
    <3>4. QED
      BY <3>2, <3>3
  <2>2. CASE ~(g = f /\ f \notin shortage)
    <3>1. ValueIs(g, i, x)
      BY <1>1, <1>4, <2>2 DEF ValueIs
    <3>2. i <= Len(MessagesOf(g))
      BY <1>2, <3>1 DEF ValueIs
    <3>3. QED
      BY <3>1, <3>2
  <2>3. QED
    BY <2>1, <2>2
<1>5. \A i \in Nat : i + 0 = i
  OBVIOUS
<1>6. ArrivesAfter(g, 0)
  <2>1. \A i \in Nat : \A x : ValueIs(g, i, x)' =>
           ValueIs(g, i + 0, x) \/ (i + 0 > Len(MessagesOf(g)) /\ Fresh(x))
    BY <1>2, <1>4, <1>5
  <2>2. \A i, j \in Nat : \A x, y :
           i < j /\ ValueIs(g, i, x)' /\ ValueIs(g, j, y)' => ~(i + 0 > Len(MessagesOf(g)))
    BY <1>2, <1>4
  <2>3. QED
    BY <2>1, <2>2 DEF ArrivesAfter
<1>7. QED
  BY <1>6 DEF ArrivesInOrder

(* An update puts one message for each subscription into the inboxes. *)
LEMMA UpdatesInOrder ==
    ASSUME TypeInv, TypeInv', NEW target \in Targets, NEW shortage,
           NEW notices \in Reached(UpdateNotices(target, nextTimestamp), shortage),
           NEW mail \in Mailings(notices), inboxes' = Post(inboxes, mail),
           Exists(target)', Current(target)' = nextTimestamp, nextTimestamp < nextTimestamp',
           NEW f \in FileIds
    PROVE  ArrivesInOrder(f)
<1>1. nextTimestamp \in Nat
  BY DEF TypeInv, TypeOK, StoreTypes
<1>2. GoodNotices(notices)
  BY <1>1, UpdateNoticesTypes DEF GoodNotices
<1>3. /\ MessagesOf(f) \in Seq(Message) /\ Len(MessagesOf(f)) \in Nat
      /\ MessagesOf(f) = Messages(inboxes[f]) /\ MessagesOf(f)' = Messages(inboxes'[f])
      /\ DOMAIN MessagesOf(f) = 1 .. Len(MessagesOf(f))
      /\ inboxes \in [FileIds -> MaybeInbox(Message)]
  BY InboxesAreTyped, PrimedMessages, LenProperties
<1>m. MailPosted(inboxes, notices, mail, f)
  BY <1>2, <1>3, PostMessages
<1> DEFINE sent == MailTo(mail, f)
           post == Post(inboxes, mail)
<1>a. /\ sent \in Seq(Message)
      /\ Len(mail[f]) \in Nat /\ Len(sent) = Len(mail[f])
      /\ Messages(post[f]) = Messages(inboxes[f]) \o sent
      /\ \A i \in 1 .. Len(mail[f]) :
            mail[f][i] \in notices /\ mail[f][i].to = f /\ sent[i] = mail[f][i].message
      /\ \A i, j \in 1 .. Len(mail[f]) : mail[f][i] = mail[f][j] => i = j
  BY <1>m DEF MailPosted
<1>b. inboxes' = post
  OBVIOUS
<1> HIDE DEF sent, post
<1>c. PICK box : box = mail[f]
  OBVIOUS
<1>d. PICK n0 : n0 = Len(MessagesOf(f))
  OBVIOUS
<1>4. /\ sent \in Seq(Message)
      /\ n0 \in Nat /\ Len(box) \in Nat /\ Len(sent) = Len(box)
      /\ MessagesOf(f)' = MessagesOf(f) \o sent
      /\ \A i \in 1 .. Len(box) : box[i] \in notices /\ box[i].to = f /\ sent[i] = box[i].message
      /\ \A i, j \in 1 .. Len(box) : box[i] = box[j] => i = j
  BY <1>3, <1>a, <1>b, <1>c, <1>d
<1>5. /\ DOMAIN MessagesOf(f)' = 1 .. n0 + Len(box)
      /\ \A i \in 1 .. n0 + Len(box) :
            MessagesOf(f)'[i] = IF i <= n0 THEN MessagesOf(f)[i] ELSE sent[i - n0]
  <2>1. PICK old : old = MessagesOf(f)
    OBVIOUS
  <2>2. old \in Seq(Message) /\ sent \in Seq(Message)
    BY <1>3, <1>4, <2>1
  <2>3. /\ Len(old \o sent) = Len(old) + Len(sent)
        /\ \A i \in 1 .. Len(old) + Len(sent) :
              (old \o sent)[i] = IF i <= Len(old) THEN old[i] ELSE sent[i - Len(old)]
        /\ old \o sent \in Seq(Message)
    BY <2>2, ConcatProperties, Zenon
  <2>4. DOMAIN (old \o sent) = 1 .. Len(old \o sent)
    BY <2>3, LenProperties
  <2>5. Len(old) = n0
    BY <1>d, <2>1
  <2>6. QED
    BY <1>4, <2>1, <2>3, <2>4, <2>5
<1>6. \A i \in 1 .. Len(box) : \E id :
         box[i] = Notice(f, 0, id, ValueMessage("Updated", target, id, nextTimestamp))
  <2>1. notices \subseteq UpdateNotices(target, nextTimestamp)
    BY DEF Reached
  <2>2. \A n \in notices : \E to, id :
           n = Notice(to, 0, id, ValueMessage("Updated", target, id, nextTimestamp))
    BY <2>1 DEF UpdateNotices
  <2>3. \A to, phase, id, m : Notice(to, phase, id, m).to = to
    BY DEF Notice
  <2>4. \A n \in notices : n.to = f => \E id :
           n = Notice(f, 0, id, ValueMessage("Updated", target, id, nextTimestamp))
    BY <2>2, <2>3
  <2>5. QED
    BY <1>4, <2>4
<1>7. \A i \in 1 .. Len(box) : \E id :
         /\ box[i] = Notice(f, 0, id, ValueMessage("Updated", target, id, nextTimestamp))
         /\ sent[i] = ValueMessage("Updated", target, id, nextTimestamp)
  <2>1. \A to, phase, id, m : Notice(to, phase, id, m).message = m
    BY DEF Notice
  <2>2. QED
    BY <1>4, <1>6, <2>1
<1>8. ASSUME NEW i \in Nat, NEW x, ValueIs(f, i, x)'
      PROVE  \/ ValueIs(f, i, x) /\ i <= n0
             \/ i > n0 /\ i - n0 \in 1 .. Len(box) /\ x = sent[i - n0]
  <2>1. i \in 1 .. n0 + Len(box) /\ x = MessagesOf(f)'[i] /\ IsValue(x)
    BY <1>5, <1>8 DEF ValueIs
  <2>2. CASE i <= n0
    <3>1. i \in 1 .. n0
      BY <1>3, <2>1, <2>2
    <3>2. QED
      BY <1>3, <1>5, <1>d, <2>1, <2>2, <3>1 DEF ValueIs
  <2>3. CASE ~(i <= n0)
    <3>1. i > n0 /\ i - n0 \in 1 .. Len(box)
      BY <1>3, <1>4, <2>1, <2>3
    <3>2. QED
      BY <1>5, <2>1, <2>3, <3>1
  <2>4. QED
    BY <2>2, <2>3
<1>9. ASSUME NEW i \in 1 .. Len(box)
      PROVE  Fresh(sent[i])
  <2>1. PICK id : sent[i] = ValueMessage("Updated", target, id, nextTimestamp)
    BY <1>7
  <2>2. PICK x : x = sent[i]
    OBVIOUS
  <2>3. x.target = target /\ x.value = nextTimestamp
    BY <2>1, <2>2 DEF ValueMessage
  <2>4. Fresh(x)
    BY <2>3 DEF Fresh
  <2>5. QED
    BY <2>2, <2>4
<1>10. ASSUME NEW i \in 1 .. Len(box), NEW j \in 1 .. Len(box),
              SameSubscription(sent[i], sent[j])
       PROVE  i = j
  <2>1. PICK id : /\ box[i] = Notice(f, 0, id, ValueMessage("Updated", target, id, nextTimestamp))
                  /\ sent[i] = ValueMessage("Updated", target, id, nextTimestamp)
    BY <1>7
  <2>2. PICK jd : /\ box[j] = Notice(f, 0, jd, ValueMessage("Updated", target, jd, nextTimestamp))
                  /\ sent[j] = ValueMessage("Updated", target, jd, nextTimestamp)
    BY <1>7
  <2>3. id = jd
    BY <1>10, <2>1, <2>2 DEF SameSubscription, ValueMessage
  <2>4. QED
    BY <1>4, <2>1, <2>2, <2>3
<1>11. ArrivesAfter(f, 0)
  <2>1. \A i \in Nat : i + 0 = i
    OBVIOUS
  <2>2. ASSUME NEW i \in Nat, NEW x, ValueIs(f, i, x)'
        PROVE  ValueIs(f, i + 0, x) \/ (i + 0 > n0 /\ Fresh(x))
    BY <1>8, <1>9, <2>1, <2>2
  <2>3. ASSUME NEW i \in Nat, NEW j \in Nat, NEW x, NEW y, i < j,
               ValueIs(f, i, x)', ValueIs(f, j, y)', i + 0 > n0
        PROVE  ~SameSubscription(x, y)
    <3>1. i - n0 \in 1 .. Len(box) /\ x = sent[i - n0]
      BY <1>4, <1>8, <2>3
    <3>2. j - n0 \in 1 .. Len(box) /\ y = sent[j - n0]
      BY <1>4, <1>8, <2>3
    <3>3. i - n0 # j - n0
      BY <1>4, <2>3
    <3>4. QED
      BY <1>10, <3>1, <3>2, <3>3
  <2>4. QED
    BY <1>d, <2>2, <2>3 DEF ArrivesAfter
<1>12. QED
  BY <1>11 DEF ArrivesInOrder

(* What commands do to the values: none is changed but by a write. *)
SameValue(x, y) == y # Nil => x # Nil /\ y.value = x.value

LEMMA CountingKeepsValue ==
    ASSUME NEW x \in MaybeAStore, NEW m \in Nat, NEW n \in Nat
    PROVE  /\ SameValue(x, Decrement(x, m, n))
           /\ x # Nil => /\ IncrementPending(x) \in AStore /\ AcceptPending(x) \in AStore
                         /\ SameValue(x, IncrementPending(x)) /\ SameValue(x, AcceptPending(x))
<1>1. x # Nil => x \in AStore
  BY DEF MaybeAStore
<1>2. SameValue(x, Decrement(x, m, n))
  <2>1. CASE x = Nil \/ (m = 0 /\ n = 0)
    BY <2>1 DEF Decrement, SameValue
  <2>2. CASE ~(x = Nil \/ (m = 0 /\ n = 0))
    <3> DEFINE y == [x EXCEPT !.pending = SaturatingSub(@, m), !.accepted = SaturatingSub(@, n)]
    <3>1. y.value = x.value
      BY <1>1, <2>2 DEF AStore, AnonymousStore
    <3>2. Decrement(x, m, n) \in {Nil, y}
      BY <2>2 DEF Decrement, CleanupIfUnused
    <3> HIDE DEF y
    <3>3. QED
      BY <2>2, <3>1, <3>2 DEF SameValue
  <2>3. QED
    BY <2>1, <2>2
<1>3. x # Nil => SameValue(x, IncrementPending(x))
  BY <1>1 DEF AStore, AnonymousStore, IncrementPending, SameValue
<1>4. x # Nil => SameValue(x, AcceptPending(x))
  BY <1>1 DEF AStore, AnonymousStore, AcceptPending, SameValue
<1>5. QED
  BY <1>1, <1>2, <1>3, <1>4, CountingTypes

NoWrite ==
    /\ nextTimestamp' = nextTimestamp
    /\ \A t \in Paths : SameValue(stores[t], stores'[t])
    /\ \A a \in AnonymousIds : SameValue(anonymous[a], anonymous'[a])

LEMMA NoWriteNoTime ==
    ASSUME TypeInv, NoWrite
    PROVE  TimeGoesOn
<1>1. nextTimestamp \in Nat
  BY DEF TypeInv, TypeOK, StoreTypes
<1>2. ASSUME NEW t \in Targets, Exists(t)' PROVE Exists(t) /\ Current(t)' = Current(t)
  <2>1. CASE IsAnonymous(t)
    BY <1>2, <2>1, TargetTypes DEF NoWrite, Exists, Current, SameValue
  <2>2. CASE ~IsAnonymous(t)
    BY <1>2, <2>2, TargetTypes DEF NoWrite, Exists, Current, SameValue
  <2>3. QED
    BY <2>1, <2>2
<1>3. QED
  BY <1>1, <1>2 DEF NoWrite, TimeGoesOn

LEMMA SameStoresNoWrite ==
    ASSUME UNCHANGED <<stores, anonymous, nextTimestamp>>
    PROVE  NoWrite
BY DEF NoWrite, SameValue

LEMMA OneStoreNoWrite ==
    ASSUME TypeInv, NEW a \in AnonymousIds, NEW x, UNCHANGED <<stores, nextTimestamp>>,
           anonymous' = [anonymous EXCEPT ![a] = x], SameValue(anonymous[a], x)
    PROVE  NoWrite
BY DEF NoWrite, SameValue, TypeInv, TypeOK, StoreTypes

LEMMA SameMessagesInOrder ==
    ASSUME TypeInv, TypeInv', NEW f \in FileIds, MessagesOf(f)' = MessagesOf(f)
    PROVE  ArrivesInOrder(f)
<1>1. /\ Messages(inboxes[f]) \in Seq(Message)
      /\ Messages(inboxes'[f]) = Messages(inboxes[f])
  BY InboxesAreTyped, PrimedMessages
<1>2. Extended(Messages(inboxes'[f]), Messages(inboxes[f]), {})
  BY <1>1, NothingAppended
<1>3. QED
  BY <1>2, NoValueArrives

LEMMA SameInboxesInOrder ==
    ASSUME TypeInv, TypeInv', UNCHANGED inboxes, NEW f \in FileIds
    PROVE  ArrivesInOrder(f)
<1>1. MessagesOf(f)' = MessagesOf(f)
  BY PrimedMessages, InboxesAreTyped
<1>2. QED
  BY <1>1, SameMessagesInOrder

(* A write: the new value is newer than all others. *)
LEMMA WriteTakesTime ==
    ASSUME TypeInv, NEW u \in Targets, nextTimestamp' = nextTimestamp + 1,
           Current(u)' = nextTimestamp,
           \A t \in Targets : t # u => (Exists(t)' => Exists(t) /\ Current(t)' = Current(t))
    PROVE  TimeGoesOn /\ nextTimestamp < nextTimestamp'
<1>1. nextTimestamp \in Nat
  BY DEF TypeInv, TypeOK, StoreTypes
<1>2. nextTimestamp <= nextTimestamp' /\ nextTimestamp < nextTimestamp'
  BY <1>1
<1>3. QED
  BY <1>2 DEF TimeGoesOn

LEMMA NamedWrite ==
    ASSUME TypeInv, NEW t \in Paths, NEW x \in NamedStore, x.value = nextTimestamp,
           stores' = [stores EXCEPT ![t] = x], nextTimestamp' = nextTimestamp + 1,
           UNCHANGED anonymous
    PROVE  /\ TimeGoesOn /\ nextTimestamp < nextTimestamp'
           /\ Exists(t)' /\ Current(t)' = nextTimestamp
<1>1. stores'[t] = x /\ x # Nil /\ \A u \in Paths : u # t => stores'[u] = stores[u]
  BY NilAssumption DEF TypeInv, TypeOK, StoreTypes
<1>2. t \in Targets /\ ~IsAnonymous(t)
  BY PathsAreTargets DEF Paths, NamedTargets, IsAnonymous
<1>3. Exists(t)' /\ Current(t)' = nextTimestamp
  BY <1>1, <1>2 DEF Exists, Current
<1>4. \A u \in Targets : u # t => (Exists(u)' => Exists(u) /\ Current(u)' = Current(u))
  <2> SUFFICES ASSUME NEW u \in Targets, u # t, Exists(u)'
               PROVE  Exists(u) /\ Current(u)' = Current(u)
    OBVIOUS
  <2>1. CASE IsAnonymous(u)
    BY <2>1 DEF Exists, Current
  <2>2. CASE ~IsAnonymous(u)
    BY <1>1, <2>2, TargetTypes DEF Exists, Current
  <2>3. QED
    BY <2>1, <2>2
<1>5. QED
  BY <1>2, <1>3, <1>4, WriteTakesTime

LEMMA AnonymousWrite ==
    ASSUME TypeInv, NEW a \in AnonymousIds, NEW x \in AStore, x.value = nextTimestamp,
           anonymous' = [anonymous EXCEPT ![a] = x], nextTimestamp' = nextTimestamp + 1,
           UNCHANGED stores
    PROVE  /\ TimeGoesOn /\ nextTimestamp < nextTimestamp'
           /\ Exists(Anonymous(a))' /\ Current(Anonymous(a))' = nextTimestamp
<1>1. anonymous'[a] = x /\ x # Nil /\ \A b \in AnonymousIds : b # a => anonymous'[b] = anonymous[b]
  BY NilAssumption DEF TypeInv, TypeOK, StoreTypes, AStore
<1>2. PICK t : t = Anonymous(a)
  OBVIOUS
<1>3. t \in Targets /\ IsAnonymous(t) /\ t.anonymous = a
  BY <1>2, AnonymousIsTarget
<1>4. Exists(t)' /\ Current(t)' = nextTimestamp
  BY <1>1, <1>3 DEF Exists, Current
<1>5. \A u \in Targets : u # t => (Exists(u)' => Exists(u) /\ Current(u)' = Current(u))
  <2> SUFFICES ASSUME NEW u \in Targets, u # t, Exists(u)'
               PROVE  Exists(u) /\ Current(u)' = Current(u)
    OBVIOUS
  <2>1. CASE IsAnonymous(u)
    <3>1. u.anonymous \in AnonymousIds /\ u.anonymous # a
      BY <1>2, <2>1, TargetTypes
    <3>2. QED
      BY <1>1, <2>1, <3>1 DEF Exists, Current
  <2>2. CASE ~IsAnonymous(u)
    BY <2>2 DEF Exists, Current
  <2>3. QED
    BY <2>1, <2>2
<1>6. TimeGoesOn /\ nextTimestamp < nextTimestamp'
  BY <1>3, <1>4, <1>5, WriteTakesTime
<1>7. QED
  BY <1>2, <1>4, <1>6

(* The commands, one after the other. *)
LEMMA QuietValues ==
    ASSUME TypeInv, TypeInv', NEW f \in FileIds,
           \/ UNCHANGED vars \/ Open(f)
           \/ \E s \in ServiceNames : BindService(f, s) \/ FunctionCall(f, s)
    PROVE  ValueStep
<1>1. NoWrite
  <2>1. UNCHANGED <<stores, anonymous, nextTimestamp>>
    BY DEF vars, Open, BindService, FunctionCall, storeVars
  <2>2. QED
    BY <2>1, SameStoresNoWrite
<1>2. ASSUME NEW g \in FileIds PROVE MessagesOf(g)' = MessagesOf(g)
  <2>1. /\ inboxes \in [FileIds -> MaybeInbox(Message)]
        /\ MessagesOf(g) = Messages(inboxes[g]) /\ MessagesOf(g)' = Messages(inboxes'[g])
    BY InboxesAreTyped, PrimedMessages
  <2>2. CASE UNCHANGED inboxes
    BY <2>1, <2>2
  <2>3. CASE \E s \in ServiceNames : FunctionCall(f, s)
    <3>1. PICK h : inboxes' = [inboxes EXCEPT ![h] = Notify(@)]
      BY <2>3 DEF FunctionCall
    <3>2. inboxes'[g] = inboxes[g] \/ inboxes'[g] = Notify(inboxes[g])
      BY <2>1, <3>1
    <3>3. QED
      BY <2>1, <3>2, NotifyMessages
  <2>4. QED
    BY <2>2, <2>3 DEF vars, Open, BindService
<1>3. QED
  BY <1>1, <1>2, NoWriteNoTime, SameMessagesInOrder DEF ValueStep

LEMMA StoreCreateValues ==
    ASSUME TypeInv, TypeInv', NEW f \in FileIds, NEW t \in Paths, NEW public \in BOOLEAN,
           StoreCreate(f, t, public)
    PROVE  ValueStep
<1>1. [value |-> nextTimestamp, public |-> public] \in NamedStore
  BY DEF TypeInv, TypeOK, StoreTypes, NamedStore
<1>2. TimeGoesOn
  BY <1>1, NamedWrite DEF StoreCreate
<1>3. QED
  BY <1>2, SameInboxesInOrder DEF ValueStep, StoreCreate

LEMMA AnonymousStoreCreateValues ==
    ASSUME TypeInv, TypeInv', NEW f \in FileIds, NEW s \in ServiceNames, AnonymousStoreCreate(f, s)
    PROVE  ValueStep
<1>1. nextAnonymous \in AnonymousIds
  BY DEF AnonymousStoreCreate, AnonymousIds, TypeInv, TypeOK, StoreTypes
<1>2. /\ NewAnonymousStore(s, f, nextTimestamp) \in AStore
      /\ NewAnonymousStore(s, f, nextTimestamp).value = nextTimestamp
  BY DEF NewAnonymousStore, AStore, AnonymousStore, TypeInv, TypeOK, StoreTypes
<1>3. TimeGoesOn
  BY <1>1, <1>2, AnonymousWrite DEF AnonymousStoreCreate
<1>4. QED
  BY <1>3, SameInboxesInOrder DEF ValueStep, AnonymousStoreCreate

LEMMA StoreUpdateValues ==
    ASSUME TypeInv, TypeInv', NEW f \in FileIds, NEW t \in Paths, NEW shortage,
           StoreUpdate(f, t, shortage)
    PROVE  ValueStep
<1>1. CASE stores[t] = Nil
  <2>1. nextTimestamp \in Nat /\ nextTimestamp' = nextTimestamp + 1
    BY DEF TypeInv, TypeOK, StoreTypes, StoreUpdate
  <2>2. UNCHANGED <<stores, anonymous, inboxes>>
    BY <1>1 DEF StoreUpdate
  <2>3. \A u \in Targets : Exists(u)' => Exists(u) /\ Current(u)' = Current(u)
    BY <2>2 DEF Exists, Current
  <2>4. TimeGoesOn
    BY <2>1, <2>3 DEF TimeGoesOn
  <2>5. QED
    BY <2>2, <2>4, SameInboxesInOrder DEF ValueStep
<1>2. CASE stores[t] # Nil
  <2>1. /\ stores' = [stores EXCEPT ![t].value = nextTimestamp]
        /\ nextTimestamp' = nextTimestamp + 1 /\ UNCHANGED anonymous
        /\ \E notices \in Reached(UpdateNotices(t, nextTimestamp), shortage) :
           \E mail \in Mailings(notices) : inboxes' = Post(inboxes, mail)
    BY <1>2 DEF StoreUpdate
  <2>2. stores \in [Paths -> NamedStore \union {Nil}] /\ nextTimestamp \in Nat
    BY DEF TypeInv, TypeOK, StoreTypes
  <2>3. PICK x : x = [stores[t] EXCEPT !.value = nextTimestamp]
    OBVIOUS
  <2>4. x \in NamedStore /\ x.value = nextTimestamp
    BY <1>2, <2>2, <2>3 DEF NamedStore
  <2>5. stores' = [stores EXCEPT ![t] = x]
    BY <2>1, <2>3
  <2>6. /\ TimeGoesOn /\ nextTimestamp < nextTimestamp'
        /\ Exists(t)' /\ Current(t)' = nextTimestamp
    BY <2>1, <2>4, <2>5, NamedWrite
  <2>7. t \in Targets
    BY PathsAreTargets
  <2>8. QED
    BY <2>1, <2>6, <2>7, UpdatesInOrder DEF ValueStep
<1>3. QED
  BY <1>1, <1>2

LEMMA AnonymousStoreUpdateValues ==
    ASSUME TypeInv, TypeInv', NEW f \in FileIds, NEW a \in AnonymousIds, NEW shortage,
           AnonymousStoreUpdate(f, a, shortage)
    PROVE  ValueStep
<1>1. /\ anonymous' = [anonymous EXCEPT ![a].value = nextTimestamp] /\ anonymous[a] # Nil
      /\ nextTimestamp' = nextTimestamp + 1 /\ UNCHANGED stores
      /\ \E notices \in Reached(UpdateNotices(Anonymous(a), nextTimestamp), shortage) :
         \E mail \in Mailings(notices) : inboxes' = Post(inboxes, mail)
  BY DEF AnonymousStoreUpdate
<1>2. anonymous[a] \in AStore /\ nextTimestamp \in Nat
  BY <1>1 DEF TypeInv, TypeOK, StoreTypes, AStore
<1>3. PICK x : x = [anonymous[a] EXCEPT !.value = nextTimestamp]
  OBVIOUS
<1>4. x \in AStore /\ x.value = nextTimestamp
  BY <1>2, <1>3 DEF AStore, AnonymousStore
<1>5. anonymous' = [anonymous EXCEPT ![a] = x]
  BY <1>1, <1>3
<1>6. /\ TimeGoesOn /\ nextTimestamp < nextTimestamp'
      /\ Exists(Anonymous(a))' /\ Current(Anonymous(a))' = nextTimestamp
  BY <1>1, <1>4, <1>5, AnonymousWrite
<1>7. PICK t : t = Anonymous(a)
  OBVIOUS
<1>8. t \in Targets /\ Exists(t)' /\ Current(t)' = nextTimestamp
  BY <1>6, <1>7, AnonymousIsTarget
<1>9. \E notices \in Reached(UpdateNotices(t, nextTimestamp), shortage) :
      \E mail \in Mailings(notices) : inboxes' = Post(inboxes, mail)
  BY <1>1, <1>7
<1>10. QED
  BY <1>6, <1>8, <1>9, UpdatesInOrder DEF ValueStep

LEMMA FunctionCallReplyValues ==
    ASSUME TypeInv, TypeInv', NEW f \in FileIds, NEW m, NEW badFds, NEW shortage,
           FunctionCallReply(f, m, badFds, shortage)
    PROVE  ValueStep
<1>1. TimeGoesOn
  BY NoWriteNoTime, SameStoresNoWrite DEF FunctionCallReply, storeVars
<1>2. CASE UNCHANGED inboxes
  BY <1>1, <1>2, SameInboxesInOrder DEF ValueStep
<1>3. ASSUME NEW p \in Consumable(replyTokens, m.token, f),
             inboxes' = Send(inboxes, p.client, CallReplyOf(p), shortage)
      PROVE  ValueStep
  <2>1. p \in PendingReply
    BY DEF Consumable, TypeInv, TypeOK, CallTypes
  <2>2. p.client \in FileIds /\ CallReplyOf(p) \in Message
    BY <2>1, MessageTypes DEF PendingReply
  <2>3. ~IsValue(CallReplyOf(p))
    BY DEF IsValue, CallReplyOf
  <2>4. QED
    BY <1>1, <1>3, <2>2, <2>3, SentInOrder DEF ValueStep
<1>4. QED
  BY <1>2, <1>3 DEF FunctionCallReply

LEMMA InboxNextMessageValues ==
    ASSUME TypeInv, TypeInv', NEW f \in FileIds, NEW shortage, InboxNextMessage(f, shortage)
    PROVE  ValueStep
<1>1. TimeGoesOn
  BY NoWriteNoTime, SameStoresNoWrite DEF InboxNextMessage, storeVars
<1>2. CASE PopMessage(f)
  BY <1>1, <1>2, PoppedInOrder DEF ValueStep
<1>3. ASSUME NEW s \in ServicesOf(f), FlushRequests(f, s, shortage)
      PROVE  ValueStep
  <2>1. \A m \in CallRequest : ~IsValue(m)
    BY DEF CallRequest, IsValue
  <2>2. \A g \in FileIds : Extended(Messages(inboxes'[g]), Messages(inboxes[g]), CallRequest)
    BY <1>3, FlushExtends
  <2>3. QED
    BY <1>1, <2>1, <2>2, NoValueArrives DEF ValueStep
<1>4. ASSUME WouldBlock(f, shortage), NEW g \in FileIds
      PROVE  MessagesOf(g)' = MessagesOf(g)
  <2>1. /\ inboxes \in [FileIds -> MaybeInbox(Message)]
        /\ MessagesOf(g) = Messages(inboxes[g]) /\ MessagesOf(g)' = Messages(inboxes'[g])
    BY InboxesAreTyped, PrimedMessages
  <2>2. inboxes'[g] = inboxes[g] \/ inboxes'[g] = Ensure(inboxes[g])
    BY <1>4, <2>1 DEF WouldBlock
  <2>3. QED
    BY <2>1, <2>2, EnsureMessages
<1>5. CASE WouldBlock(f, shortage)
  BY <1>1, <1>4, <1>5, SameMessagesInOrder DEF ValueStep
<1>6. QED
  BY <1>2, <1>3, <1>5 DEF InboxNextMessage

LEMMA CloseValues ==
    ASSUME TypeInv, TypeInv', NEW f \in FileIds, NEW shortage, Close(f, shortage)
    PROVE  ValueStep
<1>1. \A m \in Ends : ~IsValue(m)
  BY DEF Ends, IsValue
<1>2. ASSUME NEW g \in FileIds PROVE ArrivesInOrder(g)
  <2>1. Extended(Messages(inboxes'[g]), IF g = f THEN <<>> ELSE Messages(inboxes[g]), Ends)
    BY CloseExtends
  <2>2. QED
    BY <1>1, <2>1, NoValueArrives
<1>3. NoWrite
  <2>1. nextTimestamp' = nextTimestamp
    BY DEF Close
  <2>2. \A t \in Paths : SameValue(stores[t], stores'[t])
    BY DEF Close, SameValue
  <2>3. ASSUME NEW a \in AnonymousIds PROVE SameValue(anonymous[a], anonymous'[a])
    <3>1. anonymous[a] \in MaybeAStore
      BY DEF TypeInv, TypeOK, StoreTypes, MaybeAStore, AStore
    <3>2. PICK m, n : /\ m = Cardinality({p \in EntriesOf(subTokens, f) : p.target = Anonymous(a)})
                      /\ n = Cardinality({s \in OwnSubscriptions(f) : s.target = Anonymous(a)})
      OBVIOUS
    <3>3. m \in Nat /\ n \in Nat
      <4>1. /\ IsFiniteSet({p \in EntriesOf(subTokens, f) : p.target = Anonymous(a)})
            /\ IsFiniteSet({s \in OwnSubscriptions(f) : s.target = Anonymous(a)})
        BY FS_Subset DEF EntriesOf, OwnSubscriptions, TypeInv, Finite
      <4>2. QED
        BY <3>2, <4>1, FS_CardinalityType
    <3>4. anonymous'[a] = IF Gone(f, a) THEN Nil ELSE Decrement(anonymous[a], m, n)
      BY <3>2 DEF Close, AnonymousAfterClose
    <3>5. SameValue(anonymous[a], Decrement(anonymous[a], m, n)) /\ SameValue(anonymous[a], Nil)
      BY <3>1, <3>3, CountingKeepsValue DEF SameValue
    <3>6. QED
      BY <3>4, <3>5
  <2>4. QED
    BY <2>1, <2>2, <2>3 DEF NoWrite
<1>4. QED
  BY <1>2, <1>3, NoWriteNoTime DEF ValueStep

LEMMA AskValues ==
    ASSUME TypeInv, TypeInv', NEW f \in FileIds, NEW id \in SubIds, NEW target \in Targets,
           NEW service \in FileIds, NEW shortage, Ask(f, id, target, service, shortage),
           NEW g \in FileIds
    PROVE  ArrivesInOrder(g)
<1> DEFINE entry(ts) == [token |-> ts[1], client |-> f, service |-> service,
                         id |-> id, target |-> target]
<1>1. PICK ts \in Allocate(subTokens, 1) :
         inboxes' = Send(inboxes, service, SubscribeRequestOf(entry(ts)), shortage)
  BY DEF Ask
<1>2. ts[1] \in Tokens
  <2>1. FreshTokens(subTokens, 1, ts)
    BY AllocateGivesFreshTokens
  <2>2. QED
    BY <2>1 DEF FreshTokens
<1>3. entry(ts) \in PendingSubscription
  BY <1>2 DEF PendingSubscription
<1> HIDE DEF entry
<1>4. SubscribeRequestOf(entry(ts)) \in Message /\ ~IsValue(SubscribeRequestOf(entry(ts)))
  BY <1>3, MessageTypes DEF SubscribeRequestOf, IsValue
<1>5. QED
  BY <1>1, <1>4, SentInOrder

LEMMA SubscribeValues ==
    ASSUME TypeInv, TypeInv', NEW f \in FileIds, NEW id \in SubIds, NEW shortage,
           \/ \E t \in Paths : SubscribePublic(f, t, id, shortage)
           \/ \E t \in Paths : SubscribePrivate(f, t, id, shortage)
           \/ \E a \in AnonymousIds : AnonymousStoreSubscribe(f, a, id, shortage)
    PROVE  ValueStep
<1>1. ASSUME NEW t \in Paths, SubscribePublic(f, t, id, shortage)
      PROVE  ValueStep
  <2>1. NoWrite
    BY <1>1, SameStoresNoWrite DEF SubscribePublic, storeVars
  <2>2. t \in Targets /\ ~IsAnonymous(t)
    BY PathsAreTargets DEF Paths, NamedTargets, IsAnonymous
  <2>3. stores[t] # Nil /\ stores[t] \in NamedStore /\ stores' = stores
    BY <1>1 DEF SubscribePublic, storeVars, TypeInv, TypeOK, StoreTypes
  <2>4. PICK m : m = ValueMessage("Accepted", t, id, stores[t].value)
    OBVIOUS
  <2>5. m \in Message
    BY <2>2, <2>3, <2>4, MessageTypes DEF NamedStore
  <2>6. Fresh(m)
    BY <2>2, <2>3, <2>4 DEF Fresh, ValueMessage, Exists, Current
  <2>7. inboxes' = Send(inboxes, f, m, shortage)
    BY <1>1, <2>4 DEF SubscribePublic
  <2>8. QED
    BY <2>1, <2>5, <2>6, <2>7, NoWriteNoTime, SentInOrder DEF ValueStep
<1>2. ASSUME NEW t \in Paths, SubscribePrivate(f, t, id, shortage)
      PROVE  ValueStep
  <2>1. NoWrite
    BY <1>2, SameStoresNoWrite DEF SubscribePrivate, storeVars
  <2>2. t \in Targets /\ services[t.service].file \in FileIds
    BY <1>2, PathsAreTargets DEF TypeInv, StoresAreProvided, BoundService, SubscribePrivate
  <2>3. Ask(f, id, t, services[t.service].file, shortage)
    BY <1>2 DEF SubscribePrivate
  <2>4. \A g \in FileIds : ArrivesInOrder(g)
    BY <2>2, <2>3, AskValues
  <2>5. QED
    BY <2>1, <2>4, NoWriteNoTime DEF ValueStep
<1>3. ASSUME NEW a \in AnonymousIds, AnonymousStoreSubscribe(f, a, id, shortage)
      PROVE  ValueStep
  <2>1. anonymous[a] \in AStore /\ anonymous[a].owner \in FileIds
    BY <1>3 DEF AnonymousStoreSubscribe, TypeInv, TypeOK, StoreTypes, AStore, AnonymousStore
  <2>2. /\ Ask(f, id, Anonymous(a), anonymous[a].owner, shortage)
        /\ anonymous' = [anonymous EXCEPT ![a] =
              IF anonymous[a].owner \in shortage
              THEN Decrement(IncrementPending(anonymous[a]), 1, 0) ELSE IncrementPending(anonymous[a])]
        /\ UNCHANGED <<stores, nextTimestamp>>
    BY <1>3 DEF AnonymousStoreSubscribe
  <2>3. PICK x : x = IF anonymous[a].owner \in shortage
                     THEN Decrement(IncrementPending(anonymous[a]), 1, 0)
                     ELSE IncrementPending(anonymous[a])
    OBVIOUS
  <2>4. SameValue(anonymous[a], x)
    <3>1. anonymous[a] # Nil /\ anonymous[a] \in MaybeAStore
      BY <2>1, NilAssumption DEF MaybeAStore, AStore
    <3>2. IncrementPending(anonymous[a]) \in AStore /\ SameValue(anonymous[a], IncrementPending(anonymous[a]))
      BY <3>1, CountingKeepsValue
    <3>3. SameValue(IncrementPending(anonymous[a]), Decrement(IncrementPending(anonymous[a]), 1, 0))
      BY <3>2, CountingKeepsValue DEF MaybeAStore
    <3>4. QED
      BY <2>3, <3>2, <3>3 DEF SameValue
  <2>5. NoWrite
    BY <2>2, <2>3, <2>4, OneStoreNoWrite
  <2>6. \A g \in FileIds : ArrivesInOrder(g)
    BY <2>1, <2>2, AnonymousIsTarget, AskValues
  <2>7. QED
    BY <2>5, <2>6, NoWriteNoTime DEF ValueStep
<1>4. QED
  BY <1>1, <1>2, <1>3

(* The verdicts. *)
LEMMA AcceptNamedValues ==
    ASSUME TypeInv, TypeInv', NEW p \in PendingSubscription, ~IsAnonymous(p.target), NEW shortage,
           AcceptNamed(p, shortage), UNCHANGED <<stores, nextTimestamp>>
    PROVE  ValueStep
<1>1. NoWrite
  BY SameStoresNoWrite DEF AcceptNamed
<1>2. p.client \in FileIds /\ p.id \in SubIds /\ p.target \in Targets /\ p.target \in Paths
  BY TargetTypes DEF PendingSubscription
<1>3. CASE UNCHANGED inboxes
  BY <1>1, <1>3, NoWriteNoTime, SameInboxesInOrder DEF ValueStep
<1>4. PICK m : m = ValueMessage("Accepted", p.target, p.id, stores[p.target].value)
  OBVIOUS
<1>5. CASE stores[p.target] # Nil /\ inboxes' = Send(inboxes, p.client, m, shortage)
  <2>1. stores[p.target].value \in Nat
    BY <1>2, <1>5 DEF TypeInv, TypeOK, StoreTypes, NamedStore
  <2>2. m \in Message
    BY <1>2, <1>4, <2>1, MessageTypes
  <2>3. Fresh(m)
    BY <1>2, <1>4, <1>5 DEF Fresh, ValueMessage, Exists, Current
  <2>4. QED
    BY <1>1, <1>2, <1>5, <2>2, <2>3, NoWriteNoTime, SentInOrder DEF ValueStep
<1>6. QED
  BY <1>3, <1>4, <1>5 DEF AcceptNamed

LEMMA AcceptAnonymousValues ==
    ASSUME TypeInv, TypeInv', NEW p \in PendingSubscription, IsAnonymous(p.target), NEW shortage,
           AcceptAnonymous(p, shortage), UNCHANGED <<stores, nextTimestamp>>
    PROVE  ValueStep
<1>1. PICK a : a = p.target.anonymous
  OBVIOUS
<1>2. p.client \in FileIds /\ p.id \in SubIds /\ p.target \in Targets /\ a \in AnonymousIds
  BY <1>1, TargetTypes DEF PendingSubscription
<1>3. PICK m : m = ValueMessage("Accepted", p.target, p.id, anonymous[a].value)
  OBVIOUS
<1>4. /\ anonymous \in [AnonymousIds -> MaybeAStore] /\ anonymous[a] \in MaybeAStore
      /\ anonymous[a] # Nil =>
            /\ anonymous[a].value \in Nat
            /\ AcceptPending(anonymous[a]) # Nil /\ AcceptPending(anonymous[a]) \in MaybeAStore
            /\ SameValue(anonymous[a], AcceptPending(anonymous[a]))
            /\ SameValue(anonymous[a], Decrement(AcceptPending(anonymous[a]), 0, 1))
  <2>1. anonymous \in [AnonymousIds -> MaybeAStore]
    BY DEF TypeInv, TypeOK, StoreTypes, MaybeAStore, AStore
  <2>2. anonymous[a] \in MaybeAStore
    BY <1>2, <2>1
  <2>3. anonymous[a] # Nil =>
           anonymous[a].value \in Nat /\ AcceptPending(anonymous[a]) \in AStore
           /\ SameValue(anonymous[a], AcceptPending(anonymous[a]))
    BY <2>2, CountingKeepsValue DEF MaybeAStore, AStore, AnonymousStore
  <2>4. \A x \in AStore : SameValue(x, Decrement(x, 0, 1)) /\ x # Nil /\ x \in MaybeAStore
    BY CountingKeepsValue, NilAssumption DEF MaybeAStore, AStore
  <2>5. QED
    BY <2>1, <2>2, <2>3, <2>4 DEF SameValue
<1>5. CASE UNCHANGED <<inboxes, anonymous>>
  <2>1. NoWrite
    BY <1>5, SameStoresNoWrite
  <2>2. QED
    BY <1>5, <2>1, NoWriteNoTime, SameInboxesInOrder DEF ValueStep
<1>6. CASE /\ anonymous[a] # Nil /\ UNCHANGED inboxes
           /\ anonymous' = [anonymous EXCEPT ![a] = Decrement(AcceptPending(anonymous[a]), 0, 1)]
  <2>1. NoWrite
    BY <1>2, <1>4, <1>6, OneStoreNoWrite
  <2>2. QED
    BY <1>6, <2>1, NoWriteNoTime, SameInboxesInOrder DEF ValueStep
<1>7. CASE /\ anonymous[a] # Nil
           /\ anonymous' = [anonymous EXCEPT ![a] = AcceptPending(anonymous[a])]
           /\ inboxes' = Send(inboxes, p.client, m, shortage)
  <2>1. NoWrite
    BY <1>2, <1>4, <1>7, OneStoreNoWrite
  <2>2. m \in Message
    BY <1>2, <1>3, <1>4, <1>7, MessageTypes
  <2>3. anonymous'[a] # Nil /\ anonymous'[a].value = anonymous[a].value
    BY <1>2, <1>4, <1>7 DEF SameValue
  <2>4. PICK t : t = p.target
    OBVIOUS
  <2>5. t \in Targets /\ IsAnonymous(t) /\ t.anonymous = a /\ m.target = t
        /\ m.value = anonymous[a].value /\ m.type = "Accepted"
    BY <1>1, <1>2, <1>3, <2>4 DEF ValueMessage
  <2>6. Exists(t)' /\ Current(t)' = anonymous[a].value
    BY <2>3, <2>5 DEF Exists, Current
  <2>7. Fresh(m)
    BY <2>5, <2>6 DEF Fresh
  <2>8. QED
    BY <1>2, <1>7, <2>1, <2>2, <2>7, NoWriteNoTime, SentInOrder DEF ValueStep
<1>8. QED
  BY <1>1, <1>3, <1>5, <1>6, <1>7 DEF AcceptAnonymous

LEMMA RejectValues ==
    ASSUME TypeInv, TypeInv', NEW p \in PendingSubscription, NEW shortage,
           Reject(p, shortage), UNCHANGED <<stores, nextTimestamp>>
    PROVE  ValueStep
<1>1. p.client \in FileIds /\ p.id \in SubIds /\ p.target \in Targets
  BY DEF PendingSubscription
<1>2. PICK m : m = EndMessage("Rejected", p.target, p.id)
  OBVIOUS
<1>3. m \in Message /\ ~IsValue(m)
  BY <1>1, <1>2, MessageTypes DEF EndMessage, IsValue
<1>4. inboxes' = Send(inboxes, p.client, m, shortage)
  BY <1>2 DEF Reject
<1>5. NoWrite
  <2>1. CASE IsAnonymous(p.target)
    <3>1. PICK a : a = p.target.anonymous
      OBVIOUS
    <3>2. a \in AnonymousIds
      BY <1>1, <2>1, <3>1, TargetTypes
    <3>3. anonymous[a] \in MaybeAStore
      BY <3>2 DEF TypeInv, TypeOK, StoreTypes, MaybeAStore, AStore
    <3>4. SameValue(anonymous[a], Decrement(anonymous[a], 1, 0))
      BY <3>3, CountingKeepsValue
    <3>5. anonymous' = [anonymous EXCEPT ![a] = Decrement(anonymous[a], 1, 0)]
      BY <2>1, <3>1 DEF Reject
    <3>6. QED
      BY <3>2, <3>4, <3>5, OneStoreNoWrite
  <2>2. CASE ~IsAnonymous(p.target)
    BY <2>2, SameStoresNoWrite DEF Reject
  <2>3. QED
    BY <2>1, <2>2
<1>6. QED
  BY <1>1, <1>3, <1>4, <1>5, NoWriteNoTime, SentInOrder DEF ValueStep

LEMMA StoreSubscriptionReplyValues ==
    ASSUME TypeInv, TypeInv', NEW f \in FileIds, NEW m, NEW accepted \in BOOLEAN, NEW shortage,
           StoreSubscriptionReply(f, m, accepted, shortage)
    PROVE  ValueStep
<1>1. UNCHANGED <<stores, nextTimestamp>>
  BY DEF StoreSubscriptionReply
<1>2. CASE UNCHANGED <<inboxes, anonymous>>
  BY <1>1, <1>2, SameStoresNoWrite, NoWriteNoTime, SameInboxesInOrder DEF ValueStep
<1>3. ASSUME NEW p \in Consumable(subTokens, m.token, f),
             \/ accepted /\ ~IsAnonymous(p.target) /\ AcceptNamed(p, shortage)
             \/ accepted /\ IsAnonymous(p.target) /\ AcceptAnonymous(p, shortage)
             \/ ~accepted /\ Reject(p, shortage)
      PROVE  ValueStep
  <2>1. p \in PendingSubscription
    BY DEF Consumable, TypeInv, TypeOK, StoreTypes
  <2>2. QED
    BY <1>1, <1>3, <2>1, AcceptNamedValues, AcceptAnonymousValues, RejectValues
<1>4. QED
  BY <1>2, <1>3 DEF StoreSubscriptionReply

LEMMA StoreUnsubscribeValues ==
    ASSUME TypeInv, TypeInv', NEW f \in FileIds, NEW id \in SubIds, NEW shortage,
           StoreUnsubscribe(f, id, shortage)
    PROVE  ValueStep
<1>1. PICK s \in OwnSubscription(subs, f, id) :
         IF IsAnonymous(s.target) /\ anonymous[s.target.anonymous] # Nil
         THEN /\ inboxes' = Send(inboxes, anonymous[s.target.anonymous].owner,
                                 EndMessage("Closed", s.target, id), shortage)
              /\ anonymous' = [anonymous EXCEPT ![s.target.anonymous] = Decrement(@, 0, 1)]
         ELSE UNCHANGED <<inboxes, anonymous>>
  BY DEF StoreUnsubscribe
<1>2. UNCHANGED <<stores, nextTimestamp>>
  BY DEF StoreUnsubscribe
<1>3. CASE UNCHANGED <<inboxes, anonymous>>
  BY <1>2, <1>3, SameStoresNoWrite, NoWriteNoTime, SameInboxesInOrder DEF ValueStep
<1>4. PICK a, m : a = s.target.anonymous /\ m = EndMessage("Closed", s.target, id)
  OBVIOUS
<1>5. CASE /\ IsAnonymous(s.target) /\ anonymous[a] # Nil
           /\ inboxes' = Send(inboxes, anonymous[a].owner, m, shortage)
           /\ anonymous' = [anonymous EXCEPT ![a] = Decrement(anonymous[a], 0, 1)]
  <2>1. s.target \in Targets
    BY DEF OwnSubscription, TypeInv, TypeOK, StoreTypes, Subscription
  <2>2. a \in AnonymousIds
    BY <1>4, <1>5, <2>1, TargetTypes
  <2>3. anonymous[a] \in AStore /\ anonymous[a].owner \in FileIds
    BY <1>5, <2>2 DEF TypeInv, TypeOK, StoreTypes, AStore, AnonymousStore
  <2>4. m \in Message /\ ~IsValue(m)
    BY <1>4, <2>1, MessageTypes DEF EndMessage, IsValue
  <2>5. SameValue(anonymous[a], Decrement(anonymous[a], 0, 1))
    BY <2>3, CountingKeepsValue DEF MaybeAStore
  <2>6. NoWrite
    BY <1>2, <1>5, <2>2, <2>5, OneStoreNoWrite
  <2>7. QED
    BY <1>5, <2>3, <2>4, <2>6, NoWriteNoTime, SentInOrder DEF ValueStep
<1>6. QED
  BY <1>1, <1>3, <1>4, <1>5

LEMMA EveryValueStep ==
    ASSUME TypeInv, TypeInv', [Next]_vars
    PROVE  ValueStep
<1>1. CASE UNCHANGED vars
  <2>1. PICK f : f \in FileIds \/ FileIds = {}
    OBVIOUS
  <2>2. CASE f \in FileIds
    BY <1>1, <2>2, QuietValues
  <2>3. CASE FileIds = {}
    BY <1>1, <2>3, SameStoresNoWrite, NoWriteNoTime DEF ValueStep, vars
  <2>4. QED
    BY <2>1, <2>2, <2>3
<1>2. ASSUME NEW f \in FileIds, Answer(f) PROVE ValueStep
  <2>1. PICK m, shortage :
           \/ \E badFds : FunctionCallReply(f, m, badFds, shortage)
           \/ \E accepted \in BOOLEAN : StoreSubscriptionReply(f, m, accepted, shortage)
    BY <1>2 DEF Answer
  <2>2. QED
    BY <2>1, FunctionCallReplyValues, StoreSubscriptionReplyValues
<1>3. ASSUME NEW f \in FileIds, Write(f) PROVE ValueStep
  <2>1. Visibilities \subseteq BOOLEAN
    BY MotherboardAssumption
  <2>2. QED
    BY <1>3, <2>1, StoreCreateValues, StoreUpdateValues, AnonymousStoreCreateValues,
       AnonymousStoreUpdateValues DEF Write
<1>4. ASSUME NEW f \in FileIds, Subscribe(f) PROVE ValueStep
  BY <1>4, SubscribeValues, StoreUnsubscribeValues DEF Subscribe
<1>5. ASSUME NEW f \in FileIds, \E shortage \in Shortages : InboxNextMessage(f, shortage)
      PROVE  ValueStep
  BY <1>5, InboxNextMessageValues
<1>6. ASSUME NEW f \in FileIds, \E shortage \in Shortages : Close(f, shortage)
      PROVE  ValueStep
  BY <1>6, CloseValues
<1>7. QED
  BY <1>1, <1>2, <1>3, <1>4, <1>5, <1>6, QuietValues DEF Next

(* A subscriber is sent the values of a store in the order they were       *)
(* written, each update newer than all before it, whatever creations,      *)
(* writes, verdicts and closings come in between, and however late it      *)
(* fetches them.                                                           *)
THEOREM ValuesNeverGoBack == Spec => []ValuesArriveInOrder
<1>1. Init => ValuesInv
  <2> SUFFICES ASSUME Init PROVE ValuesInv
    OBVIOUS
  <2>1. StoresArePast
    BY TargetTypes DEF Init, StoresArePast, Exists
  <2>2. \A f \in FileIds, i \in Nat : \A m : ~ValueIs(f, i, m)
    BY DEF Init, ValueIs, MessagesOf
  <2>3. QED
    BY <2>1, <2>2 DEF ValuesInv, ValuesArePast, ValuesInOrder
<1>2. TypeInv /\ TypeInv' /\ ValuesInv /\ [Next]_vars => ValuesInv'
  BY EveryValueStep, ValueStepKeepsInv
<1>3. QED
  BY <1>1, <1>2, TypeInvariant, ValuesInvSuffices, PTL DEF Spec

-------------------------------------------------------------------------------
(***************************************************************************)
(* Subscribers converge.  The last value on the way to a subscription, or  *)
(* the last that was fetched, is the store's; this needs that no two       *)
(* subscriptions of a connection have one id, for the messages name their  *)
(* subscription by it.                                                     *)
(***************************************************************************)
IsLast(f, id, i, m) ==
    /\ ValueIs(f, i, m) /\ m.id = id
    /\ \A j \in Nat : \A x : ValueIs(f, j, x) /\ x.id = id => j <= i
NothingComes(f, id) == \A i \in Nat : \A m : ValueIs(f, i, m) => m.id # id
LastIs(f, id, v) ==
    \/ \E i \in Nat : \E m : IsLast(f, id, i, m) /\ m.value = v
    \/ NothingComes(f, id) /\ seen[f][id] = v

OneSubscriptionPerId ==
    \A s, u \in subs : s.file = u.file /\ s.id = u.id => s = u
SubscribersAreCurrent ==
    \A s \in subs : \A v : v = Current(s.target) => LastIs(s.file, s.id, v)

ConvergeInv == OneSubscriptionPerId /\ SubscribersAreCurrent

LEMMA ConvergeInvSuffices == TypeInv /\ ConvergeInv => SubscribersConverge
<1> SUFFICES ASSUME TypeInv, ConvergeInv, NEW s \in subs
             PROVE  LET ms == MessagesOf(s.file)
                        coming == {i \in DOMAIN ms :
                                      ms[i].type \in {"Accepted", "Updated"} /\ ms[i].id = s.id}
                    IN  \/ coming = {} /\ seen[s.file][s.id] = Current(s.target)
                        \/ \E i \in coming :
                              ms[i].value = Current(s.target) /\ \A j \in coming : j <= i
  BY DEF SubscribersConverge
<1>1. PICK f, id, v : f = s.file /\ id = s.id /\ v = Current(s.target)
  OBVIOUS
<1>2. f \in FileIds
  BY <1>1 DEF TypeInv, TypeOK, StoreTypes, Subscription
<1>3. PICK ms : ms = MessagesOf(f)
  OBVIOUS
<1>4. DOMAIN ms \subseteq Nat
  <2>1. ms \in Seq(Message) /\ Len(ms) \in Nat
    BY <1>2, <1>3, InboxesAreTyped
  <2>2. DOMAIN ms = 1 .. Len(ms)
    BY <2>1, LenProperties
  <2>3. QED
    BY <2>1, <2>2
<1> DEFINE coming == {i \in DOMAIN ms : ms[i].type \in {"Accepted", "Updated"} /\ ms[i].id = id}
<1>5. \A i : i \in coming <=> \E m : ValueIs(f, i, m) /\ m.id = id
  BY <1>3 DEF ValueIs, IsValue
<1>6. LastIs(f, id, v)
  BY <1>1 DEF ConvergeInv, SubscribersAreCurrent
<1>7. CASE NothingComes(f, id) /\ seen[f][id] = v
  <2>1. coming = {}
    BY <1>4, <1>5, <1>7 DEF NothingComes
  <2>2. QED
    BY <1>1, <1>3, <1>7, <2>1
<1>8. ASSUME NEW i \in Nat, NEW m, IsLast(f, id, i, m), m.value = v
      PROVE  \E k \in coming : ms[k].value = v /\ \A j \in coming : j <= k
  <2>1. i \in coming /\ ms[i].value = v
    BY <1>3, <1>5, <1>8 DEF IsLast, ValueIs
  <2>2. \A j \in coming : j \in Nat /\ \E x : ValueIs(f, j, x) /\ x.id = id
    BY <1>4, <1>5
  <2>3. \A j \in coming : j <= i
    BY <1>8, <2>2 DEF IsLast
  <2>4. QED
    BY <2>1, <2>3
<1>9. QED
  BY <1>1, <1>3, <1>6, <1>7, <1>8 DEF LastIs

(* A step that brings no value of an id and takes none.                    *)
QuietFor(f, id) ==
    /\ seen'[f][id] = seen[f][id]
    /\ \A i \in Nat : \A m : m.id = id => (ValueIs(f, i, m)' <=> ValueIs(f, i, m))

LEMMA QuietKeepsLast ==
    ASSUME NEW f, NEW id, NEW v, QuietFor(f, id), LastIs(f, id, v)
    PROVE  LastIs(f, id, v)'
<1>1. \A i \in Nat : \A m : m.id = id => (ValueIs(f, i, m)' <=> ValueIs(f, i, m))
  BY DEF QuietFor
<1>2. ASSUME NEW i \in Nat, NEW m, IsLast(f, id, i, m) PROVE IsLast(f, id, i, m)'
  BY <1>1, <1>2 DEF IsLast
<1>3. NothingComes(f, id) => NothingComes(f, id)'
  BY <1>1 DEF NothingComes
<1>4. seen'[f][id] = seen[f][id]
  BY DEF QuietFor
<1>5. QED
  BY <1>2, <1>3, <1>4 DEF LastIs

(* What is appended to an inbox and is no value. *)
LEMMA ExtendedIsQuiet ==
    ASSUME TypeInv, TypeInv', NEW f \in FileIds, NEW A, \A m \in A : ~IsValue(m),
           Extended(Messages(inboxes'[f]), Messages(inboxes[f]), A), seen'[f] = seen[f], NEW id
    PROVE  QuietFor(f, id)
<1>1. /\ MessagesOf(f) = Messages(inboxes[f]) /\ MessagesOf(f)' = Messages(inboxes'[f])
      /\ MessagesOf(f) \in Seq(Message) /\ Len(MessagesOf(f)) \in Nat
  BY InboxesAreTyped, PrimedMessages
<1>2. MessagesOf(f)' \in Seq(Message) /\ Len(MessagesOf(f)') \in Nat
  <2>1. inboxes'[f] \in MaybeInbox(Message)
    BY DEF TypeInv, TypeOK, CallTypes, MaybeInbox
  <2>2. QED
    BY <1>1, <2>1, MessagesAreSeq
<1>3. DOMAIN MessagesOf(f) = 1 .. Len(MessagesOf(f)) /\ DOMAIN MessagesOf(f)' = 1 .. Len(MessagesOf(f)')
  BY <1>1, <1>2, LenProperties
<1>4. /\ Len(MessagesOf(f)) <= Len(MessagesOf(f)')
      /\ \A i \in 1 .. Len(MessagesOf(f)) : MessagesOf(f)'[i] = MessagesOf(f)[i]
      /\ \A i \in Len(MessagesOf(f)) + 1 .. Len(MessagesOf(f)') : MessagesOf(f)'[i] \in A
  BY <1>1 DEF Extended
<1>5. ASSUME NEW i \in Nat, NEW m, ValueIs(f, i, m)' PROVE ValueIs(f, i, m)
  <2>1. i \in 1 .. Len(MessagesOf(f)') /\ m = MessagesOf(f)'[i] /\ IsValue(m)
    BY <1>3, <1>5 DEF ValueIs
  <2>2. i \in 1 .. Len(MessagesOf(f)) \/ i \in Len(MessagesOf(f)) + 1 .. Len(MessagesOf(f)')
    BY <1>1, <1>2, <2>1
  <2>3. i \in 1 .. Len(MessagesOf(f))
    BY <1>4, <2>1, <2>2
  <2>4. QED
    BY <1>3, <1>4, <2>1, <2>3 DEF ValueIs
<1>6. ASSUME NEW i \in Nat, NEW m, ValueIs(f, i, m) PROVE ValueIs(f, i, m)'
  <2>1. i \in 1 .. Len(MessagesOf(f)) /\ m = MessagesOf(f)[i] /\ IsValue(m)
    BY <1>3, <1>6 DEF ValueIs
  <2>2. i \in 1 .. Len(MessagesOf(f)')
    BY <1>1, <1>2, <1>4, <2>1
  <2>3. QED
    BY <1>3, <1>4, <2>1, <2>2 DEF ValueIs
<1>7. QED
  BY <1>5, <1>6 DEF QuietFor

LEMMA SameMessagesAreQuiet ==
    ASSUME TypeInv, TypeInv', NEW f \in FileIds, MessagesOf(f)' = MessagesOf(f),
           seen'[f] = seen[f], NEW id
    PROVE  QuietFor(f, id)
<1>1. /\ Messages(inboxes[f]) \in Seq(Message)
      /\ Messages(inboxes'[f]) = Messages(inboxes[f])
  BY InboxesAreTyped, PrimedMessages
<1>2. Extended(Messages(inboxes'[f]), Messages(inboxes[f]), {})
  BY <1>1, NothingAppended
<1>3. QED
  BY <1>2, ExtendedIsQuiet

(* A message is appended: it is the last of its id, and quiet for others. *)
LEMMA SentIsLast ==
    ASSUME TypeInv, TypeInv', NEW f \in FileIds, NEW m \in Message,
           inboxes' = Send(inboxes, f, m, {}), IsValue(m)
    PROVE  LastIs(f, m.id, m.value)'
<1>1. MessagesOf(f)' = Append(MessagesOf(f), m)
  BY SentMessages
<1>2. /\ MessagesOf(f) \in Seq(Message) /\ Len(MessagesOf(f)) \in Nat
  BY InboxesAreTyped
<1>3. PICK n : n = Len(MessagesOf(f)) + 1
  OBVIOUS
<1>4. /\ n \in Nat /\ DOMAIN Append(MessagesOf(f), m) = 1 .. n
      /\ Append(MessagesOf(f), m)[n] = m
  BY <1>2, <1>3, AppendProperties, LenProperties
<1>5. ValueIs(f, n, m)'
  BY <1>1, <1>4 DEF ValueIs
<1>6. \A j \in Nat : \A x : ValueIs(f, j, x)' => j <= n
  BY <1>1, <1>4 DEF ValueIs
<1>7. IsLast(f, m.id, n, m)'
  BY <1>5, <1>6 DEF IsLast
<1>8. QED
  BY <1>4, <1>7 DEF LastIs

LEMMA SentIsQuiet ==
    ASSUME TypeInv, TypeInv', NEW f \in FileIds, NEW m \in Message, NEW shortage,
           inboxes' = Send(inboxes, f, m, shortage), seen' = seen,
           NEW g \in FileIds, NEW id, g = f => ~IsValue(m) \/ m.id # id
    PROVE  QuietFor(g, id)
<1>1. MessagesOf(g)' = IF g = f /\ f \notin shortage THEN Append(MessagesOf(g), m) ELSE MessagesOf(g)
  BY SentMessages
<1>2. CASE ~(g = f /\ f \notin shortage)
  BY <1>1, <1>2, SameMessagesAreQuiet
<1>3. CASE g = f /\ f \notin shortage
  <2>1. /\ MessagesOf(f) \in Seq(Message) /\ Len(MessagesOf(f)) \in Nat
        /\ DOMAIN MessagesOf(f) = 1 .. Len(MessagesOf(f))
    BY InboxesAreTyped, LenProperties
  <2>2. /\ DOMAIN Append(MessagesOf(f), m) = 1 .. Len(MessagesOf(f)) + 1
        /\ \A i \in 1 .. Len(MessagesOf(f)) : Append(MessagesOf(f), m)[i] = MessagesOf(f)[i]
        /\ Append(MessagesOf(f), m)[Len(MessagesOf(f)) + 1] = m
    BY <2>1, AppendProperties, LenProperties
  <2>3. ASSUME NEW i \in Nat, NEW x, x.id = id
        PROVE  ValueIs(f, i, x)' <=> ValueIs(f, i, x)
    <3>1. ValueIs(f, i, x)' <=> i \in 1 .. Len(MessagesOf(f)) + 1
                               /\ x = Append(MessagesOf(f), m)[i] /\ IsValue(x)
      BY <1>1, <1>3, <2>2 DEF ValueIs
    <3>2. ValueIs(f, i, x) <=> i \in 1 .. Len(MessagesOf(f)) /\ x = MessagesOf(f)[i] /\ IsValue(x)
      BY <2>1 DEF ValueIs
    <3>3. CASE i = Len(MessagesOf(f)) + 1
      <4>1. ~(x = m /\ IsValue(x))
        BY <1>3, <2>3
      <4>2. ~ValueIs(f, i, x)'
        BY <2>2, <3>1, <3>3, <4>1
      <4>3. ~ValueIs(f, i, x)
        BY <2>1, <3>2, <3>3
      <4>4. QED
        BY <4>2, <4>3
    <3>4. CASE i # Len(MessagesOf(f)) + 1
      <4>1. i \in 1 .. Len(MessagesOf(f)) + 1 <=> i \in 1 .. Len(MessagesOf(f))
        BY <2>1, <3>4
      <4>2. QED
        BY <2>2, <3>1, <3>2, <4>1
    <3>5. QED
      BY <3>3, <3>4
  <2>4. seen'[g][id] = seen[g][id]
    OBVIOUS
  <2>5. QED
    BY <1>3, <2>3, <2>4 DEF QuietFor
<1>4. QED
  BY <1>2, <1>3

(* A value that is fetched was the oldest on its way: it is what its       *)
(* subscription has seen, and the last is still the last.                  *)
LEMMA PopKeepsLast ==
    ASSUME TypeInv, TypeInv', FdsMayRunOut = FALSE, NEW f \in FileIds, PopMessage(f),
           NEW g \in FileIds, NEW id \in SubIds, NEW v, LastIs(g, id, v)
    PROVE  LastIs(g, id, v)'
<1>1. /\ g # f => MessagesOf(g)' = MessagesOf(g)
      /\ MessagesOf(f) # <<>>
      /\ Head(inboxes[f].messages) = Head(MessagesOf(f))
      /\ DOMAIN MessagesOf(f)' = 1 .. Len(MessagesOf(f)) - 1
      /\ \A i \in 1 .. Len(MessagesOf(f)) - 1 :
            MessagesOf(f)'[i] = MessagesOf(f)[i + 1] /\ i + 1 \in 1 .. Len(MessagesOf(f))
  BY PoppedMessages
<1>2. /\ MessagesOf(f) \in Seq(Message) /\ Len(MessagesOf(f)) \in Nat
      /\ DOMAIN MessagesOf(f) = 1 .. Len(MessagesOf(f))
  BY InboxesAreTyped, LenProperties
<1>3. PICK h : h = Head(MessagesOf(f))
  OBVIOUS
<1>4. h = MessagesOf(f)[1] /\ h \in Message /\ 1 \in 1 .. Len(MessagesOf(f))
  <2>1. PICK ms : ms = MessagesOf(f)
    OBVIOUS
  <2>2. ms \in Seq(Message) /\ ms # <<>>
    BY <1>1, <1>2, <2>1
  <2>3. Head(ms) = ms[1] /\ Head(ms) \in Message /\ 1 \in 1 .. Len(ms)
    BY <2>2, HeadTailProperties, EmptySeq, LenProperties
  <2>4. QED
    BY <1>3, <2>1, <2>3
<1>5. Receive(f, h)
  BY <1>1, <1>3 DEF PopMessage, LoseResult
<1>6. seen' = IF IsValue(h) THEN [seen EXCEPT ![f][h.id] = h.value] ELSE seen
  BY <1>5 DEF Receive, IsValue
<1>7. /\ seen \in [FileIds -> [SubIds -> Nat]]
      /\ IsValue(h) => h.id \in SubIds
  BY <1>4, MessageKinds DEF TypeInv, TypeOK, ProcessTypes, IsValue
<1>8. CASE g # f
  <2>1. seen'[g] = seen[g]
    BY <1>6, <1>7, <1>8
  <2>2. QuietFor(g, id)
    BY <1>1, <1>8, <2>1, SameMessagesAreQuiet
  <2>3. QED
    BY <2>2, QuietKeepsLast
<1>9. CASE g = f
  <2>1. ASSUME NEW i \in Nat, NEW m PROVE ValueIs(f, i, m)' <=> i # 0 /\ ValueIs(f, i + 1, m)
    <3>1. i \in 1 .. Len(MessagesOf(f)) - 1 <=> i # 0 /\ i + 1 \in 1 .. Len(MessagesOf(f))
      BY <1>2
    <3>2. QED
      BY <1>1, <1>2, <3>1 DEF ValueIs
  <2>2. \A m : ValueIs(f, 1, m) <=> m = h /\ IsValue(h)
    BY <1>2, <1>4 DEF ValueIs
  <2>3. \A m : ~ValueIs(f, 0, m)
    BY <1>2 DEF ValueIs
  <2>4. CASE NothingComes(f, id) /\ seen[f][id] = v
    <3>1. NothingComes(f, id)'
      BY <2>1, <2>4 DEF NothingComes
    <3>2. IsValue(h) => h.id # id
      BY <2>2, <2>4 DEF NothingComes
    <3>3. seen'[f][id] = v
      BY <1>6, <1>7, <2>4, <3>2
    <3>4. QED
      BY <1>9, <3>1, <3>3 DEF LastIs
  <2>5. ASSUME NEW i \in Nat, NEW m, IsLast(f, id, i, m), m.value = v
        PROVE  LastIs(f, id, v)'
    <3>1. ValueIs(f, i, m) /\ m.id = id /\ i # 0
      BY <2>3, <2>5 DEF IsLast
    <3>2. \A j \in Nat : \A x : ValueIs(f, j, x)' /\ x.id = id => j # 0 /\ j + 1 <= i
      BY <2>1, <2>5 DEF IsLast
    <3>3. CASE i = 1
      <4>1. NothingComes(f, id)'
        BY <3>2, <3>3 DEF NothingComes
      <4>2. m = h /\ IsValue(h)
        BY <2>2, <3>1, <3>3
      <4>3. seen'[f][id] = v
        BY <1>6, <1>7, <2>5, <3>1, <4>2
      <4>4. QED
        BY <4>1, <4>3 DEF LastIs
    <3>4. CASE i # 1
      <4>1. PICK k \in Nat : k # 0 /\ k + 1 = i
        BY <3>1, <3>4
      <4>2. ValueIs(f, k, m)'
        BY <2>1, <3>1, <4>1
      <4>3. \A j \in Nat : \A x : ValueIs(f, j, x)' /\ x.id = id => j <= k
        BY <3>2, <4>1
      <4>4. IsLast(f, id, k, m)'
        BY <3>1, <4>2, <4>3 DEF IsLast
      <4>5. QED
        BY <2>5, <4>4 DEF LastIs
    <3>5. QED
      BY <3>3, <3>4
  <2>6. QED
    BY <1>9, <2>4, <2>5 DEF LastIs
<1>10. QED
  BY <1>8, <1>9

(* A write sends its value once to each subscription of its store, and     *)
(* nothing to the others.                                                  *)
LEMMA UpdateIsLast ==
    ASSUME TypeInv, TypeInv', OneSubscriptionPerId, NEW target \in Targets,
           NEW mail \in Mailings(UpdateNotices(target, nextTimestamp)),
           inboxes' = Post(inboxes, mail), seen' = seen, NEW s \in subs, NEW v, v = nextTimestamp
    PROVE  /\ s.target = target => LastIs(s.file, s.id, v)'
           /\ s.target # target => QuietFor(s.file, s.id)
<1>1. PICK f, id, notices : /\ f = s.file /\ id = s.id
                            /\ notices = UpdateNotices(target, nextTimestamp)
  OBVIOUS
<1>2. f \in FileIds
  BY <1>1 DEF TypeInv, TypeOK, StoreTypes, Subscription
<1>3. GoodNotices(notices)
  <2>1. nextTimestamp \in Nat
    BY DEF TypeInv, TypeOK, StoreTypes
  <2>2. notices \in Reached(notices, {})
    BY DEF Reached
  <2>3. QED
    BY <1>1, <2>1, <2>2, UpdateNoticesTypes DEF GoodNotices
<1>4. /\ MessagesOf(f) \in Seq(Message) /\ Len(MessagesOf(f)) \in Nat
      /\ MessagesOf(f) = Messages(inboxes[f]) /\ MessagesOf(f)' = Messages(inboxes'[f])
      /\ DOMAIN MessagesOf(f) = 1 .. Len(MessagesOf(f))
      /\ inboxes \in [FileIds -> MaybeInbox(Message)]
  BY <1>2, InboxesAreTyped, PrimedMessages, LenProperties
<1>5. MailPosted(inboxes, notices, mail, f)
  BY <1>1, <1>2, <1>3, <1>4, PostMessages
<1>6. PICK old, sent, box : old = MessagesOf(f) /\ sent = MailTo(mail, f) /\ box = mail[f]
  OBVIOUS
<1>7. /\ old \in Seq(Message) /\ sent \in Seq(Message)
      /\ Len(old) \in Nat /\ Len(box) \in Nat /\ Len(sent) = Len(box)
      /\ MessagesOf(f)' = old \o sent
      /\ \A i \in 1 .. Len(box) : box[i] \in notices /\ box[i].to = f /\ sent[i] = box[i].message
      /\ \A i, j \in 1 .. Len(box) : box[i] = box[j] => i = j
      /\ \A n \in notices : n.to = f => \E i \in 1 .. Len(box) : box[i] = n
  BY <1>4, <1>5, <1>6 DEF MailPosted
<1>8. /\ DOMAIN MessagesOf(f)' = 1 .. Len(old) + Len(box)
      /\ \A i \in 1 .. Len(old) + Len(box) :
            MessagesOf(f)'[i] = IF i <= Len(old) THEN old[i] ELSE sent[i - Len(old)]
  <2>1. old \in Seq(Message) /\ sent \in Seq(Message)
    BY <1>7
  <2>2. /\ Len(old \o sent) = Len(old) + Len(sent)
        /\ \A i \in 1 .. Len(old) + Len(sent) :
              (old \o sent)[i] = IF i <= Len(old) THEN old[i] ELSE sent[i - Len(old)]
        /\ old \o sent \in Seq(Message)
    BY <2>1, ConcatProperties, Zenon
  <2>3. DOMAIN (old \o sent) = 1 .. Len(old \o sent)
    BY <2>2, LenProperties
  <2>4. QED
    BY <1>7, <2>2, <2>3
<1> DEFINE update(u) == ValueMessage("Updated", target, u.id, v)
           notice(u) == Notice(u.file, 0, u.id, update(u))
<1>9. notices = {notice(u) : u \in SubscribersOf(subs, target)}
  BY <1>1 DEF UpdateNotices
<1>10. \A u : notice(u).to = u.file /\ notice(u).message = update(u)
  BY DEF Notice
<1>11. \A u : update(u).id = u.id /\ update(u).value = v /\ IsValue(update(u))
  BY DEF ValueMessage, IsValue
<1> HIDE DEF notice, update
<1>12. ASSUME NEW i \in 1 .. Len(box), sent[i].id = id
       PROVE  s.target = target /\ box[i] = notice(s)
  <2>1. PICK u \in SubscribersOf(subs, target) : box[i] = notice(u)
    BY <1>7, <1>9
  <2>2. u \in subs /\ u.target = target
    BY DEF SubscribersOf
  <2>3. u.file = f /\ u.id = id
    BY <1>7, <1>10, <1>11, <1>12, <2>1
  <2>4. u = s
    BY <1>1, <2>2, <2>3 DEF OneSubscriptionPerId
  <2>5. QED
    BY <2>1, <2>2, <2>4
<1>13. ASSUME NEW i \in Nat, NEW x, ValueIs(f, i, x)'
       PROVE  \/ i <= Len(old) /\ ValueIs(f, i, x)
              \/ i > Len(old) /\ i - Len(old) \in 1 .. Len(box) /\ x = sent[i - Len(old)]
  <2>1. i \in 1 .. Len(old) + Len(box) /\ x = MessagesOf(f)'[i] /\ IsValue(x)
    BY <1>8, <1>13 DEF ValueIs
  <2>2. CASE i <= Len(old)
    <3>1. i \in 1 .. Len(old)
      BY <1>7, <2>1, <2>2
    <3>2. QED
      BY <1>4, <1>6, <1>8, <2>1, <2>2, <3>1 DEF ValueIs
  <2>3. CASE ~(i <= Len(old))
    <3>1. i > Len(old) /\ i - Len(old) \in 1 .. Len(box)
      BY <1>7, <2>1, <2>3
    <3>2. QED
      BY <1>8, <2>1, <2>3, <3>1
  <2>4. QED
    BY <2>2, <2>3
<1>14. CASE s.target = target
  <2>1. s \in SubscribersOf(subs, target)
    BY <1>14 DEF SubscribersOf
  <2>2. notice(s) \in notices /\ notice(s).to = f
    BY <1>1, <1>9, <1>10, <2>1
  <2>3. PICK k \in 1 .. Len(box) : box[k] = notice(s)
    BY <1>7, <2>2
  <2>4. sent[k] = update(s)
    BY <1>7, <1>10, <2>3
  <2>5. PICK n : n = Len(old) + k
    OBVIOUS
  <2>6. n \in Nat /\ n \in 1 .. Len(old) + Len(box) /\ ~(n <= Len(old)) /\ n - Len(old) = k
    BY <1>7, <2>5
  <2>7. ValueIs(f, n, update(s))'
    <3>1. MessagesOf(f)'[n] = update(s)
      BY <1>8, <2>4, <2>6
    <3>2. PICK m : m = update(s)
      OBVIOUS
    <3>3. ValueIs(f, n, m)'
      BY <1>8, <1>11, <2>6, <3>1, <3>2 DEF ValueIs
    <3>4. QED
      BY <3>2, <3>3
  <2>8. ASSUME NEW j \in Nat, NEW x, ValueIs(f, j, x)', x.id = id
        PROVE  j <= n
    <3>1. CASE j <= Len(old)
      BY <1>7, <2>6, <3>1
    <3>2. CASE j > Len(old) /\ j - Len(old) \in 1 .. Len(box) /\ x = sent[j - Len(old)]
      <4>1. box[j - Len(old)] = notice(s)
        BY <1>12, <2>8, <3>2
      <4>2. j - Len(old) = k
        BY <1>7, <2>3, <3>2, <4>1
      <4>3. QED
        BY <1>7, <2>5, <4>2
    <3>3. QED
      BY <1>13, <2>8, <3>1, <3>2
  <2>9. PICK m : m = update(s)
    OBVIOUS
  <2>10. m.id = id /\ m.value = v /\ ValueIs(f, n, m)'
    BY <1>1, <1>11, <2>7, <2>9
  <2>11. IsLast(f, id, n, m)'
    BY <2>8, <2>10 DEF IsLast
  <2>12. LastIs(f, id, v)'
    BY <2>6, <2>10, <2>11 DEF LastIs
  <2>13. QED
    BY <1>1, <1>14, <2>12
<1>15. CASE s.target # target
  <2>1. ASSUME NEW i \in Nat, NEW x, x.id = id
        PROVE  ValueIs(f, i, x)' <=> ValueIs(f, i, x)
    <3>1. ASSUME ValueIs(f, i, x)' PROVE ValueIs(f, i, x)
      BY <1>12, <1>13, <1>15, <2>1, <3>1
    <3>2. ASSUME ValueIs(f, i, x) PROVE ValueIs(f, i, x)'
      <4>1. i \in 1 .. Len(old) /\ x = old[i] /\ IsValue(x)
        BY <1>4, <1>6, <3>2 DEF ValueIs
      <4>2. i \in 1 .. Len(old) + Len(box) /\ i <= Len(old)
        BY <1>7, <4>1
      <4>3. QED
        BY <1>8, <4>1, <4>2 DEF ValueIs
    <3>3. QED
      BY <3>1, <3>2
  <2>2. QuietFor(f, id)
    BY <2>1 DEF QuietFor
  <2>3. QED
    BY <1>1, <1>15, <2>2
<1>16. QED
  BY <1>14, <1>15

(* Steps that keep what is last, and the step that adds a subscription. *)
LEMMA NoWriteIsCurrent ==
    ASSUME TypeInv, TypeInv', SubscriptionsAreAnchored', ValueStep, nextTimestamp' = nextTimestamp
    PROVE  \A s \in subs' : Current(s.target)' = Current(s.target)
<1> SUFFICES ASSUME NEW s \in subs' PROVE Current(s.target)' = Current(s.target)
  OBVIOUS
<1>1. s.target \in Targets /\ Exists(s.target)'
  BY DEF SubscriptionsAreAnchored, TypeInv, TypeOK, StoreTypes, Subscription
<1>2. nextTimestamp \in Nat
  BY DEF TypeInv, TypeOK, StoreTypes
<1>3. \/ Exists(s.target) /\ Current(s.target)' = Current(s.target)
      \/ nextTimestamp < nextTimestamp'
  BY <1>1 DEF ValueStep, TimeGoesOn
<1>4. QED
  BY <1>2, <1>3

LEMMA KeptStepConverges ==
    ASSUME ConvergeInv, subs' \subseteq subs,
           \A s \in subs' : Current(s.target)' = Current(s.target),
           \A s \in subs' : \A v : LastIs(s.file, s.id, v) => LastIs(s.file, s.id, v)'
    PROVE  ConvergeInv'
<1>1. OneSubscriptionPerId'
  BY DEF ConvergeInv, OneSubscriptionPerId
<1>2. ASSUME NEW s \in subs', NEW v, v = Current(s.target)' PROVE LastIs(s.file, s.id, v)'
  <2>1. s \in subs /\ v = Current(s.target)
    BY <1>2
  <2>2. LastIs(s.file, s.id, v)
    BY <2>1 DEF ConvergeInv, SubscribersAreCurrent
  <2>3. QED
    BY <2>2
<1>3. SubscribersAreCurrent'
  BY <1>2 DEF SubscribersAreCurrent
<1>4. QED
  BY <1>1, <1>3 DEF ConvergeInv

LEMMA AcceptedConverges ==
    ASSUME TypeInv, TypeInv', ConvergeInv, NEW f \in FileIds, NEW id \in SubIds, NEW t \in Targets,
           NEW v \in Nat, v = Current(t)', ~Subscribed(subs, f, id),
           subs' = subs \union {[file |-> f, id |-> id, target |-> t]},
           inboxes' = Send(inboxes, f, ValueMessage("Accepted", t, id, v), {}), seen' = seen,
           \A s \in subs' : Current(s.target)' = Current(s.target)
    PROVE  ConvergeInv'
<1>1. PICK m : m = ValueMessage("Accepted", t, id, v)
  OBVIOUS
<1>2. m \in Message /\ IsValue(m) /\ m.id = id /\ m.value = v
  BY <1>1, MessageTypes DEF ValueMessage, IsValue
<1>3. inboxes' = Send(inboxes, f, m, {})
  BY <1>1
<1>4. PICK new : new = [file |-> f, id |-> id, target |-> t]
  OBVIOUS
<1>5. /\ subs' = subs \union {new} /\ new.file = f /\ new.id = id /\ new.target = t
      /\ \A s \in subs : ~(s.file = f /\ s.id = id)
  BY <1>4 DEF Subscribed
<1>6. OneSubscriptionPerId'
  BY <1>5 DEF ConvergeInv, OneSubscriptionPerId
<1>7. LastIs(f, id, v)'
  <2>1. LastIs(f, m.id, m.value)'
    BY <1>2, <1>3, SentIsLast
  <2>2. QED
    BY <1>2, <2>1
<1>8. ASSUME NEW s \in subs, NEW w, w = Current(s.target)' PROVE LastIs(s.file, s.id, w)'
  <2>1. w = Current(s.target) /\ s.file \in FileIds
    BY <1>5, <1>8 DEF TypeInv, TypeOK, StoreTypes, Subscription
  <2>2. LastIs(s.file, s.id, w)
    BY <2>1 DEF ConvergeInv, SubscribersAreCurrent
  <2>3. s.file = f => m.id # s.id
    BY <1>2, <1>5
  <2>4. QuietFor(s.file, s.id)
    BY <1>2, <1>3, <2>1, <2>3, SentIsQuiet
  <2>5. QED
    BY <2>2, <2>4, QuietKeepsLast
<1>9. ASSUME NEW s \in subs', NEW w, w = Current(s.target)' PROVE LastIs(s.file, s.id, w)'
  <2>1. CASE s \in subs
    BY <1>8, <1>9, <2>1
  <2>2. CASE s = new
    BY <1>5, <1>7, <1>9, <2>2
  <2>3. QED
    BY <1>5, <2>1, <2>2
<1>10. SubscribersAreCurrent'
  BY <1>9 DEF SubscribersAreCurrent
<1>11. QED
  BY <1>6, <1>10 DEF ConvergeInv

(* Messages that are no values change nothing. *)
LEMMA NoValueConverges ==
    ASSUME TypeInv, TypeInv', ConvergeInv, subs' \subseteq subs,
           \A s \in subs' : Current(s.target)' = Current(s.target),
           NEW A, \A m \in A : ~IsValue(m),
           \A s \in subs' : /\ Extended(Messages(inboxes'[s.file]), Messages(inboxes[s.file]), A)
                            /\ seen'[s.file] = seen[s.file]
    PROVE  ConvergeInv'
<1>1. ASSUME NEW s \in subs', NEW v, LastIs(s.file, s.id, v) PROVE LastIs(s.file, s.id, v)'
  <2>1. s.file \in FileIds
    BY DEF TypeInv, TypeOK, StoreTypes, Subscription
  <2>2. QuietFor(s.file, s.id)
    BY <2>1, ExtendedIsQuiet
  <2>3. QED
    BY <1>1, <2>2, QuietKeepsLast
<1>2. QED
  BY <1>1, KeptStepConverges

LEMMA SameMessagesConverge ==
    ASSUME TypeInv, TypeInv', ConvergeInv, subs' \subseteq subs, seen' = seen,
           \A s \in subs' : Current(s.target)' = Current(s.target),
           \A g \in FileIds : MessagesOf(g)' = MessagesOf(g)
    PROVE  ConvergeInv'
<1>1. ASSUME NEW s \in subs'
      PROVE  Extended(Messages(inboxes'[s.file]), Messages(inboxes[s.file]), {})
  <2>1. s.file \in FileIds
    BY DEF TypeInv, TypeOK, StoreTypes, Subscription
  <2>2. /\ Messages(inboxes[s.file]) \in Seq(Message)
        /\ Messages(inboxes'[s.file]) = Messages(inboxes[s.file])
    BY <2>1, InboxesAreTyped, PrimedMessages
  <2>3. QED
    BY <2>2, NothingAppended
<1>2. QED
  BY <1>1, NoValueConverges

LEMMA SentConverges ==
    ASSUME TypeInv, TypeInv', ConvergeInv, subs' \subseteq subs, seen' = seen,
           \A s \in subs' : Current(s.target)' = Current(s.target),
           NEW f \in FileIds, NEW m \in Message, ~IsValue(m), NEW shortage,
           inboxes' = Send(inboxes, f, m, shortage)
    PROVE  ConvergeInv'
<1>1. ASSUME NEW s \in subs', NEW v, LastIs(s.file, s.id, v) PROVE LastIs(s.file, s.id, v)'
  <2>1. s.file \in FileIds
    BY DEF TypeInv, TypeOK, StoreTypes, Subscription
  <2>2. QuietFor(s.file, s.id)
    BY <2>1, SentIsQuiet
  <2>3. QED
    BY <1>1, <2>2, QuietKeepsLast
<1>2. QED
  BY <1>1, KeptStepConverges

(* A write. *)
LEMMA UpdateConverges ==
    ASSUME TypeInv, TypeInv', ConvergeInv, NEW target \in Targets,
           NEW mail \in Mailings(UpdateNotices(target, nextTimestamp)),
           inboxes' = Post(inboxes, mail), seen' = seen, subs' = subs,
           Current(target)' = nextTimestamp,
           \A t \in Targets : t # target => Current(t)' = Current(t)
    PROVE  ConvergeInv'
<1>1. OneSubscriptionPerId /\ OneSubscriptionPerId'
  BY DEF ConvergeInv, OneSubscriptionPerId
<1>2. ASSUME NEW s \in subs, NEW v, v = Current(s.target)' PROVE LastIs(s.file, s.id, v)'
  <2>1. s.target \in Targets
    BY DEF TypeInv, TypeOK, StoreTypes, Subscription
  <2>2. CASE s.target = target
    <3>1. v = nextTimestamp
      BY <1>2, <2>2
    <3>2. QED
      BY <1>1, <2>2, <3>1, UpdateIsLast
  <2>3. CASE s.target # target
    <3>1. v = Current(s.target)
      BY <1>2, <2>1, <2>3
    <3>2. LastIs(s.file, s.id, v)
      BY <3>1 DEF ConvergeInv, SubscribersAreCurrent
    <3>3. PICK w : w = nextTimestamp
      OBVIOUS
    <3>4. QuietFor(s.file, s.id)
      BY <1>1, <2>3, <3>3, UpdateIsLast
    <3>5. QED
      BY <3>2, <3>4, QuietKeepsLast
  <2>4. QED
    BY <2>2, <2>3
<1>3. SubscribersAreCurrent'
  BY <1>2 DEF SubscribersAreCurrent
<1>4. QED
  BY <1>1, <1>3 DEF ConvergeInv

(* The commands, one after the other. *)
Standing ==
    /\ TypeInv /\ ConvergeInv /\ SubscriptionsAreAnchored /\ StoreInv
    /\ ValueStep

LEMMA QuietConverges ==
    ASSUME Standing, TypeInv', SubscriptionsAreAnchored', NEW f \in FileIds,
           \/ UNCHANGED vars \/ Open(f)
           \/ \E s \in ServiceNames : BindService(f, s) \/ FunctionCall(f, s)
    PROVE  ConvergeInv'
<1>1. /\ TypeInv /\ ConvergeInv /\ ValueStep
      /\ subs' = subs /\ seen' = seen /\ nextTimestamp' = nextTimestamp
  BY DEF Standing, vars, Open, BindService, FunctionCall, storeVars, apps
<1>2. \A s \in subs' : Current(s.target)' = Current(s.target)
  BY <1>1, NoWriteIsCurrent
<1>3. ASSUME NEW g \in FileIds PROVE MessagesOf(g)' = MessagesOf(g)
  <2>1. /\ inboxes \in [FileIds -> MaybeInbox(Message)]
        /\ MessagesOf(g) = Messages(inboxes[g]) /\ MessagesOf(g)' = Messages(inboxes'[g])
    BY <1>1, InboxesAreTyped, PrimedMessages
  <2>2. CASE UNCHANGED inboxes
    BY <2>1, <2>2
  <2>3. CASE \E s \in ServiceNames : FunctionCall(f, s)
    <3>1. PICK h : inboxes' = [inboxes EXCEPT ![h] = Notify(@)]
      BY <2>3 DEF FunctionCall
    <3>2. inboxes'[g] = inboxes[g] \/ inboxes'[g] = Notify(inboxes[g])
      BY <2>1, <3>1
    <3>3. QED
      BY <2>1, <3>2, NotifyMessages
  <2>4. QED
    BY <2>2, <2>3 DEF vars, Open, BindService
<1>4. QED
  BY <1>1, <1>2, <1>3, SameMessagesConverge

LEMMA FunctionCallReplyConverges ==
    ASSUME Standing, TypeInv', SubscriptionsAreAnchored', NEW f \in FileIds, NEW m, NEW badFds,
           NEW shortage, FunctionCallReply(f, m, badFds, shortage)
    PROVE  ConvergeInv'
<1>1. /\ TypeInv /\ ConvergeInv /\ ValueStep
      /\ subs' = subs /\ seen' = seen /\ nextTimestamp' = nextTimestamp
  BY DEF Standing, FunctionCallReply, storeVars
<1>2. \A s \in subs' : Current(s.target)' = Current(s.target)
  BY <1>1, NoWriteIsCurrent
<1>3. CASE UNCHANGED inboxes
  <2>1. \A g \in FileIds : MessagesOf(g)' = MessagesOf(g)
    BY <1>1, <1>3, InboxesAreTyped, PrimedMessages
  <2>2. QED
    BY <1>1, <1>2, <2>1, SameMessagesConverge
<1>4. ASSUME NEW p \in Consumable(replyTokens, m.token, f),
             inboxes' = Send(inboxes, p.client, CallReplyOf(p), shortage)
      PROVE  ConvergeInv'
  <2>1. p \in PendingReply
    BY <1>1 DEF Consumable, TypeInv, TypeOK, CallTypes
  <2>2. p.client \in FileIds /\ CallReplyOf(p) \in Message /\ ~IsValue(CallReplyOf(p))
    BY <2>1, MessageTypes DEF PendingReply, IsValue, CallReplyOf
  <2>3. QED
    BY <1>1, <1>2, <1>4, <2>2, SentConverges
<1>5. QED
  BY <1>3, <1>4 DEF FunctionCallReply

LEMMA InboxNextMessageConverges ==
    ASSUME Standing, TypeInv', SubscriptionsAreAnchored', FdsMayRunOut = FALSE, NEW f \in FileIds,
           NEW shortage, InboxNextMessage(f, shortage)
    PROVE  ConvergeInv'
<1>1. /\ TypeInv /\ ConvergeInv /\ ValueStep
      /\ subs' = subs /\ nextTimestamp' = nextTimestamp
  BY DEF Standing, InboxNextMessage, storeVars
<1>2. \A s \in subs' : Current(s.target)' = Current(s.target)
  BY <1>1, NoWriteIsCurrent
<1>3. CASE PopMessage(f)
  <2>1. ASSUME NEW s \in subs', NEW v, LastIs(s.file, s.id, v) PROVE LastIs(s.file, s.id, v)'
    <3>1. s.file \in FileIds /\ s.id \in SubIds
      BY DEF TypeInv, TypeOK, StoreTypes, Subscription
    <3>2. QED
      BY <1>1, <1>3, <2>1, <3>1, PopKeepsLast
  <2>2. QED
    BY <1>1, <1>2, <2>1, KeptStepConverges
<1>4. ASSUME NEW s \in ServicesOf(f), FlushRequests(f, s, shortage)
      PROVE  ConvergeInv'
  <2>1. \A m \in CallRequest : ~IsValue(m)
    BY DEF CallRequest, IsValue
  <2>2. \A g \in FileIds : Extended(Messages(inboxes'[g]), Messages(inboxes[g]), CallRequest)
    BY <1>1, <1>4, FlushExtends
  <2>3. seen' = seen
    BY <1>4 DEF FlushRequests, Receive, LoseResult
  <2>4. \A u \in subs' : u.file \in FileIds
    BY DEF TypeInv, TypeOK, StoreTypes, Subscription
  <2>5. QED
    BY <1>1, <1>2, <2>1, <2>2, <2>3, <2>4, NoValueConverges
<1>5. CASE WouldBlock(f, shortage)
  <2>1. seen' = seen
    BY <1>5 DEF WouldBlock
  <2>2. ASSUME NEW g \in FileIds PROVE MessagesOf(g)' = MessagesOf(g)
    <3>1. /\ inboxes \in [FileIds -> MaybeInbox(Message)]
          /\ MessagesOf(g) = Messages(inboxes[g]) /\ MessagesOf(g)' = Messages(inboxes'[g])
      BY <1>1, InboxesAreTyped, PrimedMessages
    <3>2. inboxes'[g] = inboxes[g] \/ inboxes'[g] = Ensure(inboxes[g])
      BY <1>5, <3>1 DEF WouldBlock
    <3>3. QED
      BY <3>1, <3>2, EnsureMessages
  <2>3. QED
    BY <1>1, <1>2, <2>1, <2>2, SameMessagesConverge
<1>6. QED
  BY <1>3, <1>4, <1>5 DEF InboxNextMessage

LEMMA CloseConverges ==
    ASSUME Standing, TypeInv', SubscriptionsAreAnchored', NEW f \in FileIds, NEW shortage,
           Close(f, shortage)
    PROVE  ConvergeInv'
<1>1. /\ TypeInv /\ ConvergeInv /\ ValueStep /\ nextTimestamp' = nextTimestamp
      /\ subs' \subseteq subs /\ \A s \in subs' : s.file # f
      /\ seen' = [seen EXCEPT ![f] = [id \in SubIds |-> 0]]
  BY DEF Standing, Close, OwnSubscriptions
<1>2. \A s \in subs' : Current(s.target)' = Current(s.target)
  BY <1>1, NoWriteIsCurrent
<1>3. \A m \in Ends : ~IsValue(m)
  BY DEF Ends, IsValue
<1>4. ASSUME NEW s \in subs'
      PROVE  /\ Extended(Messages(inboxes'[s.file]), Messages(inboxes[s.file]), Ends)
             /\ seen'[s.file] = seen[s.file]
  <2>1. s.file \in FileIds /\ s.file # f
    BY <1>1 DEF TypeInv, TypeOK, StoreTypes, Subscription
  <2>2. PICK g : g = s.file
    OBVIOUS
  <2>3. Extended(Messages(inboxes'[g]), IF g = f THEN <<>> ELSE Messages(inboxes[g]), Ends)
    BY <1>1, <2>1, <2>2, CloseExtends
  <2>4. seen'[g] = seen[g]
    BY <1>1, <2>1, <2>2 DEF TypeInv, TypeOK, ProcessTypes
  <2>5. QED
    BY <2>1, <2>2, <2>3, <2>4
<1>5. QED
  BY <1>1, <1>2, <1>3, <1>4, NoValueConverges

LEMMA CreateConverges ==
    ASSUME Standing, TypeInv', NEW f \in FileIds,
           \/ \E t \in Paths, public \in BOOLEAN : StoreCreate(f, t, public)
           \/ \E s \in ServiceNames : AnonymousStoreCreate(f, s)
    PROVE  ConvergeInv'
<1>1. /\ TypeInv /\ ConvergeInv
      /\ subs' = subs /\ seen' = seen /\ inboxes' = inboxes
      /\ \A s \in subs : Exists(s.target) /\ s.target \in Targets
  BY DEF Standing, StoreCreate, AnonymousStoreCreate, apps, SubscriptionsAreAnchored,
     TypeInv, TypeOK, StoreTypes, Subscription
<1>2. \A t \in Paths : stores[t] # Nil => stores'[t] = stores[t]
  BY <1>1 DEF StoreCreate, AnonymousStoreCreate, TypeInv, TypeOK, StoreTypes
<1>3. \A a \in AnonymousIds : anonymous[a] # Nil => anonymous'[a] = anonymous[a]
  <2>1. nextAnonymous \in Nat /\ anonymous \in [AnonymousIds -> MaybeAStore]
    BY <1>1 DEF TypeInv, TypeOK, StoreTypes, MaybeAStore, AStore
  <2>2. \A a \in AnonymousIds : anonymous[a] # Nil => a # nextAnonymous
    BY <2>1 DEF Standing, StoreInv, NewIdsAreFree
  <2>3. QED
    BY <2>1, <2>2 DEF StoreCreate, AnonymousStoreCreate
<1>4. ASSUME NEW s \in subs' PROVE Current(s.target)' = Current(s.target)
  <2>1. PICK t \in Targets : t = s.target /\ Exists(t)
    BY <1>1
  <2>2. Current(t)' = Current(t)
    BY <1>2, <1>3, <2>1, TargetTypes DEF Exists, Current
  <2>3. QED
    BY <2>1, <2>2, Zenon
<1>5. \A g \in FileIds : MessagesOf(g)' = MessagesOf(g)
  BY <1>1, InboxesAreTyped, PrimedMessages
<1>6. QED
  BY <1>1, <1>4, <1>5, SameMessagesConverge

LEMMA StoreUpdateConverges ==
    ASSUME Standing, TypeInv', NEW f \in FileIds, NEW t \in Paths, StoreUpdate(f, t, {})
    PROVE  ConvergeInv'
<1>1. /\ TypeInv /\ ConvergeInv
      /\ subs' = subs /\ seen' = seen /\ anonymous' = anonymous
      /\ stores \in [Paths -> NamedStore \union {Nil}]
  BY DEF Standing, StoreUpdate, apps, TypeInv, TypeOK, StoreTypes
<1>2. t \in Targets /\ ~IsAnonymous(t)
  BY PathsAreTargets DEF Paths, NamedTargets, IsAnonymous
<1>3. CASE stores[t] = Nil
  <2>1. UNCHANGED <<stores, inboxes>>
    BY <1>3 DEF StoreUpdate
  <2>2. \A g \in FileIds : MessagesOf(g)' = MessagesOf(g)
    BY <1>1, <2>1, InboxesAreTyped, PrimedMessages
  <2>3. \A s \in subs' : Current(s.target)' = Current(s.target)
    BY <1>1, <2>1 DEF Current
  <2>4. QED
    BY <1>1, <2>2, <2>3, SameMessagesConverge
<1>4. CASE stores[t] # Nil
  <2>1. stores' = [stores EXCEPT ![t].value = nextTimestamp]
    BY <1>4 DEF StoreUpdate
  <2>2. PICK notices \in Reached(UpdateNotices(t, nextTimestamp), {}) :
           \E mail \in Mailings(notices) : inboxes' = Post(inboxes, mail)
    BY <1>4 DEF StoreUpdate
  <2>3. notices = UpdateNotices(t, nextTimestamp)
    BY DEF Reached
  <2>4. PICK mail \in Mailings(notices) : inboxes' = Post(inboxes, mail)
    BY <2>2
  <2>5. mail \in Mailings(UpdateNotices(t, nextTimestamp))
    BY <2>3, <2>4
  <2>6. Current(t)' = nextTimestamp
    BY <1>1, <1>2, <1>4, <2>1 DEF Current, NamedStore
  <2>7. ASSUME NEW u \in Targets, u # t PROVE Current(u)' = Current(u)
    <3>1. CASE IsAnonymous(u)
      BY <1>1, <3>1 DEF Current
    <3>2. CASE ~IsAnonymous(u)
      BY <1>1, <2>1, <2>7, <3>2, TargetTypes DEF Current
    <3>3. QED
      BY <3>1, <3>2
  <2>8. QED
    BY <1>1, <1>2, <2>4, <2>5, <2>6, <2>7, UpdateConverges
<1>5. QED
  BY <1>3, <1>4

LEMMA AnonymousStoreUpdateConverges ==
    ASSUME Standing, TypeInv', NEW f \in FileIds, NEW a \in AnonymousIds,
           AnonymousStoreUpdate(f, a, {})
    PROVE  ConvergeInv'
<1>1. /\ TypeInv /\ ConvergeInv
      /\ subs' = subs /\ seen' = seen /\ stores' = stores
      /\ anonymous \in [AnonymousIds -> AStore \union {Nil}] /\ anonymous[a] # Nil
      /\ anonymous' = [anonymous EXCEPT ![a].value = nextTimestamp]
  BY DEF Standing, AnonymousStoreUpdate, apps, TypeInv, TypeOK, StoreTypes, AStore
<1>2. PICK t : t = Anonymous(a)
  OBVIOUS
<1>3. t \in Targets /\ IsAnonymous(t) /\ t.anonymous = a
  BY <1>2, AnonymousIsTarget
<1>4. PICK notices \in Reached(UpdateNotices(t, nextTimestamp), {}) :
         \E mail \in Mailings(notices) : inboxes' = Post(inboxes, mail)
  BY <1>2 DEF AnonymousStoreUpdate
<1>5. notices = UpdateNotices(t, nextTimestamp)
  BY DEF Reached
<1>6. PICK mail \in Mailings(notices) : inboxes' = Post(inboxes, mail)
  BY <1>4
<1>7. mail \in Mailings(UpdateNotices(t, nextTimestamp))
  BY <1>5, <1>6
<1>8. Current(t)' = nextTimestamp
  BY <1>1, <1>3 DEF Current, AStore, AnonymousStore
<1>9. ASSUME NEW u \in Targets, u # t PROVE Current(u)' = Current(u)
  <2>1. CASE IsAnonymous(u)
    <3>1. u.anonymous \in AnonymousIds /\ u.anonymous # a
      BY <1>2, <1>9, <2>1, TargetTypes
    <3>2. QED
      BY <1>1, <2>1, <3>1 DEF Current
  <2>2. CASE ~IsAnonymous(u)
    BY <1>1, <2>2 DEF Current
  <2>3. QED
    BY <2>1, <2>2
<1>10. QED
  BY <1>1, <1>3, <1>6, <1>7, <1>8, <1>9, UpdateConverges

LEMMA AskConverges ==
    ASSUME Standing, TypeInv', SubscriptionsAreAnchored', NEW f \in FileIds, NEW id \in SubIds,
           NEW target \in Targets, NEW service \in FileIds, NEW shortage,
           Ask(f, id, target, service, shortage),
           subs' = subs, seen' = seen, nextTimestamp' = nextTimestamp
    PROVE  ConvergeInv'
<1>1. TypeInv /\ ConvergeInv /\ ValueStep
  BY DEF Standing
<1>2. \A s \in subs' : Current(s.target)' = Current(s.target)
  BY <1>1, NoWriteIsCurrent
<1> DEFINE entry(ts) == [token |-> ts[1], client |-> f, service |-> service,
                         id |-> id, target |-> target]
<1>3. PICK ts \in Allocate(subTokens, 1) :
         inboxes' = Send(inboxes, service, SubscribeRequestOf(entry(ts)), shortage)
  BY DEF Ask
<1>4. ts[1] \in Tokens
  <2>1. FreshTokens(subTokens, 1, ts)
    BY <1>1, AllocateGivesFreshTokens
  <2>2. QED
    BY <2>1 DEF FreshTokens
<1>5. entry(ts) \in PendingSubscription
  BY <1>4 DEF PendingSubscription
<1> HIDE DEF entry
<1>6. SubscribeRequestOf(entry(ts)) \in Message /\ ~IsValue(SubscribeRequestOf(entry(ts)))
  BY <1>5, MessageTypes DEF SubscribeRequestOf, IsValue
<1>7. QED
  BY <1>1, <1>2, <1>3, <1>6, SentConverges

LEMMA SubscribeConverges ==
    ASSUME Standing, TypeInv', SubscriptionsAreAnchored', NEW f \in FileIds, NEW id \in SubIds,
           \/ \E t \in Paths : SubscribePublic(f, t, id, {})
           \/ \E t \in Paths : SubscribePrivate(f, t, id, {})
           \/ \E a \in AnonymousIds : AnonymousStoreSubscribe(f, a, id, {})
    PROVE  ConvergeInv'
<1>1. TypeInv /\ ConvergeInv /\ ValueStep
  BY DEF Standing
<1>2. ASSUME NEW t \in Paths, SubscribePublic(f, t, id, {})
      PROVE  ConvergeInv'
  <2>1. t \in Targets /\ ~IsAnonymous(t)
    BY PathsAreTargets DEF Paths, NamedTargets, IsAnonymous
  <2>2. /\ stores[t] # Nil /\ stores' = stores /\ nextTimestamp' = nextTimestamp /\ seen' = seen
        /\ ~Subscribed(subs, f, id)
        /\ subs' = subs \union {[file |-> f, id |-> id, target |-> t]}
        /\ inboxes' = Send(inboxes, f, ValueMessage("Accepted", t, id, stores[t].value), {})
    BY <1>2 DEF SubscribePublic, storeVars, apps
  <2>3. PICK v : v = stores[t].value
    OBVIOUS
  <2>4. v \in Nat
    BY <1>1, <2>2, <2>3 DEF TypeInv, TypeOK, StoreTypes, NamedStore
  <2>5. v = Current(t)'
    BY <2>1, <2>2, <2>3 DEF Current
  <2>6. inboxes' = Send(inboxes, f, ValueMessage("Accepted", t, id, v), {})
    BY <2>2, <2>3
  <2>7. \A s \in subs' : Current(s.target)' = Current(s.target)
    BY <1>1, <2>2, NoWriteIsCurrent
  <2>8. QED
    BY <1>1, <2>1, <2>2, <2>4, <2>5, <2>6, <2>7, AcceptedConverges
<1>3. ASSUME NEW t \in Paths, SubscribePrivate(f, t, id, {})
      PROVE  ConvergeInv'
  <2>1. t \in Targets /\ services[t.service].file \in FileIds
    BY <1>1, <1>3, PathsAreTargets DEF TypeInv, StoresAreProvided, BoundService, SubscribePrivate
  <2>2. /\ Ask(f, id, t, services[t.service].file, {})
        /\ subs' = subs /\ seen' = seen /\ nextTimestamp' = nextTimestamp
    BY <1>3 DEF SubscribePrivate, storeVars, apps
  <2>3. QED
    BY <2>1, <2>2, AskConverges
<1>4. ASSUME NEW a \in AnonymousIds, AnonymousStoreSubscribe(f, a, id, {})
      PROVE  ConvergeInv'
  <2>1. anonymous[a].owner \in FileIds
    BY <1>1, <1>4 DEF AnonymousStoreSubscribe, TypeInv, TypeOK, StoreTypes, AnonymousStore
  <2>2. /\ Ask(f, id, Anonymous(a), anonymous[a].owner, {})
        /\ subs' = subs /\ seen' = seen /\ nextTimestamp' = nextTimestamp
    BY <1>4 DEF AnonymousStoreSubscribe, apps
  <2>3. QED
    BY <2>1, <2>2, AnonymousIsTarget, AskConverges
<1>5. QED
  BY <1>2, <1>3, <1>4

LEMMA VerdictConverges ==
    ASSUME Standing, TypeInv', SubscriptionsAreAnchored', NEW p \in PendingSubscription,
           \/ ~IsAnonymous(p.target) /\ AcceptNamed(p, {})
           \/ IsAnonymous(p.target) /\ AcceptAnonymous(p, {})
           \/ Reject(p, {}),
           stores' = stores, seen' = seen, nextTimestamp' = nextTimestamp
    PROVE  ConvergeInv'
<1>1. TypeInv /\ ConvergeInv /\ ValueStep
  BY DEF Standing
<1>2. \A s \in subs' : Current(s.target)' = Current(s.target)
  BY <1>1, NoWriteIsCurrent
<1>3. p.client \in FileIds /\ p.id \in SubIds /\ p.target \in Targets
  BY DEF PendingSubscription
<1>4. CASE UNCHANGED <<subs, inboxes>>
  <2>1. \A g \in FileIds : MessagesOf(g)' = MessagesOf(g)
    BY <1>1, <1>4, InboxesAreTyped, PrimedMessages
  <2>2. QED
    BY <1>1, <1>2, <1>4, <2>1, SameMessagesConverge
<1>5. CASE Reject(p, {})
  <2>1. PICK m : m = EndMessage("Rejected", p.target, p.id)
    OBVIOUS
  <2>2. m \in Message /\ ~IsValue(m)
    BY <1>3, <2>1, MessageTypes DEF EndMessage, IsValue
  <2>3. inboxes' = Send(inboxes, p.client, m, {}) /\ subs' = subs
    BY <1>5, <2>1 DEF Reject
  <2>4. QED
    BY <1>1, <1>2, <1>3, <2>2, <2>3, SentConverges
<1>6. PICK t : t = p.target
  OBVIOUS
<1>7. ASSUME NEW v \in Nat, v = Current(t)', ~Subscribed(subs, p.client, p.id),
             subs' = subs \union {[file |-> p.client, id |-> p.id, target |-> t]},
             inboxes' = Send(inboxes, p.client, ValueMessage("Accepted", t, p.id, v), {})
      PROVE  ConvergeInv'
  BY <1>1, <1>2, <1>3, <1>6, <1>7, AcceptedConverges
<1>8. CASE ~IsAnonymous(t) /\ AcceptNamed(p, {})
  <2>1. CASE stores[t] = Nil \/ Subscribed(subs, p.client, p.id)
    BY <1>4, <1>6, <1>8, <2>1 DEF AcceptNamed
  <2>2. CASE ~(stores[t] = Nil \/ Subscribed(subs, p.client, p.id))
    <3>1. t \in Paths
      BY <1>3, <1>6, <1>8, TargetTypes
    <3>2. PICK v : v = stores[t].value
      OBVIOUS
    <3>3. v \in Nat
      BY <1>1, <2>2, <3>1, <3>2 DEF TypeInv, TypeOK, StoreTypes, NamedStore
    <3>4. v = Current(t)'
      BY <1>8, <3>2 DEF Current
    <3>5. /\ subs' = subs \union {[file |-> p.client, id |-> p.id, target |-> t]}
          /\ inboxes' = Send(inboxes, p.client, ValueMessage("Accepted", t, p.id, v), {})
      BY <1>6, <1>8, <2>2, <3>2 DEF AcceptNamed
    <3>6. QED
      BY <1>7, <2>2, <3>3, <3>4, <3>5
  <2>3. QED
    BY <2>1, <2>2
<1>9. CASE IsAnonymous(t) /\ AcceptAnonymous(p, {})
  <2>1. PICK a : a = t.anonymous
    OBVIOUS
  <2>2. a \in AnonymousIds /\ anonymous \in [AnonymousIds -> AStore \union {Nil}]
    BY <1>1, <1>3, <1>6, <1>9, <2>1, TargetTypes DEF TypeInv, TypeOK, StoreTypes, AStore
  <2>3. CASE anonymous[a] = Nil \/ Subscribed(subs, p.client, p.id)
    BY <1>4, <1>6, <1>9, <2>1, <2>3 DEF AcceptAnonymous
  <2>4. CASE ~(anonymous[a] = Nil \/ Subscribed(subs, p.client, p.id))
    <3>1. PICK v : v = anonymous[a].value
      OBVIOUS
    <3>2. v \in Nat
      BY <2>2, <2>4, <3>1 DEF AStore, AnonymousStore
    <3>3. /\ anonymous' = [anonymous EXCEPT ![a] = AcceptPending(anonymous[a])]
          /\ subs' = subs \union {[file |-> p.client, id |-> p.id, target |-> t]}
          /\ inboxes' = Send(inboxes, p.client, ValueMessage("Accepted", t, p.id, v), {})
      BY <1>6, <1>9, <2>1, <2>4, <3>1 DEF AcceptAnonymous
    <3>4. AcceptPending(anonymous[a]).value = v
      BY <2>2, <2>4, <3>1 DEF AStore, AnonymousStore, AcceptPending
    <3>5. v = Current(t)'
      BY <1>9, <2>1, <2>2, <3>3, <3>4 DEF Current
    <3>6. QED
      BY <1>7, <2>4, <3>2, <3>3, <3>5
  <2>5. QED
    BY <2>3, <2>4
<1>10. QED
  BY <1>5, <1>6, <1>8, <1>9

LEMMA StoreSubscriptionReplyConverges ==
    ASSUME Standing, TypeInv', SubscriptionsAreAnchored', NEW f \in FileIds, NEW m, NEW accepted,
           StoreSubscriptionReply(f, m, accepted, {})
    PROVE  ConvergeInv'
<1>1. /\ TypeInv /\ ConvergeInv /\ ValueStep
      /\ seen' = seen /\ nextTimestamp' = nextTimestamp /\ stores' = stores
  BY DEF Standing, StoreSubscriptionReply
<1>2. CASE UNCHANGED <<subs, inboxes>>
  <2>1. \A g \in FileIds : MessagesOf(g)' = MessagesOf(g)
    BY <1>1, <1>2, InboxesAreTyped, PrimedMessages
  <2>2. \A s \in subs' : Current(s.target)' = Current(s.target)
    BY <1>1, NoWriteIsCurrent
  <2>3. QED
    BY <1>1, <1>2, <2>1, <2>2, SameMessagesConverge
<1>3. ASSUME NEW p \in Consumable(subTokens, m.token, f),
             \/ accepted /\ ~IsAnonymous(p.target) /\ AcceptNamed(p, {})
             \/ accepted /\ IsAnonymous(p.target) /\ AcceptAnonymous(p, {})
             \/ ~accepted /\ Reject(p, {})
      PROVE  ConvergeInv'
  <2>1. p \in PendingSubscription
    BY <1>1 DEF Consumable, TypeInv, TypeOK, StoreTypes
  <2>2. QED
    BY <1>1, <1>3, <2>1, VerdictConverges
<1>4. QED
  BY <1>2, <1>3 DEF StoreSubscriptionReply

LEMMA StoreUnsubscribeConverges ==
    ASSUME Standing, TypeInv', SubscriptionsAreAnchored', NEW f \in FileIds, NEW id \in SubIds,
           NEW shortage, StoreUnsubscribe(f, id, shortage)
    PROVE  ConvergeInv'
<1>1. PICK s \in OwnSubscription(subs, f, id) :
         /\ subs' = subs \ {s}
         /\ IF IsAnonymous(s.target) /\ anonymous[s.target.anonymous] # Nil
            THEN inboxes' = Send(inboxes, anonymous[s.target.anonymous].owner,
                                 EndMessage("Closed", s.target, id), shortage)
            ELSE inboxes' = inboxes
  BY DEF StoreUnsubscribe
<1>2. /\ TypeInv /\ ConvergeInv /\ ValueStep /\ subs' \subseteq subs
      /\ seen' = seen /\ nextTimestamp' = nextTimestamp
  BY <1>1 DEF Standing, StoreUnsubscribe, apps
<1>3. \A u \in subs' : Current(u.target)' = Current(u.target)
  BY <1>2, NoWriteIsCurrent
<1>4. CASE UNCHANGED inboxes
  <2>1. \A g \in FileIds : MessagesOf(g)' = MessagesOf(g)
    BY <1>2, <1>4, InboxesAreTyped, PrimedMessages
  <2>2. QED
    BY <1>2, <1>3, <2>1, SameMessagesConverge
<1>5. PICK a, m : a = s.target.anonymous /\ m = EndMessage("Closed", s.target, id)
  OBVIOUS
<1>6. CASE /\ IsAnonymous(s.target) /\ anonymous[a] # Nil
           /\ inboxes' = Send(inboxes, anonymous[a].owner, m, shortage)
  <2>1. s.target \in Targets
    BY <1>2 DEF OwnSubscription, TypeInv, TypeOK, StoreTypes, Subscription
  <2>2. a \in AnonymousIds
    BY <1>5, <1>6, <2>1, TargetTypes
  <2>3. anonymous[a].owner \in FileIds
    BY <1>2, <1>6, <2>2 DEF TypeInv, TypeOK, StoreTypes, AnonymousStore
  <2>4. m \in Message /\ ~IsValue(m)
    BY <1>5, <2>1, MessageTypes DEF EndMessage, IsValue
  <2>5. QED
    BY <1>2, <1>3, <1>6, <2>3, <2>4, SentConverges
<1>7. QED
  BY <1>1, <1>4, <1>5, <1>6

LEMMA NextConverges ==
    ASSUME AllocMayFail = FALSE, FdsMayRunOut = FALSE, Standing, TypeInv',
           SubscriptionsAreAnchored', [Next]_vars
    PROVE  ConvergeInv'
<1>1. \A shortage \in Shortages : shortage = {}
  BY DEF Shortages
<1>2. CASE UNCHANGED vars
  <2>1. PICK f : f \in FileIds \/ FileIds = {}
    OBVIOUS
  <2>2. CASE f \in FileIds
    BY <1>2, <2>2, QuietConverges
  <2>3. CASE FileIds = {}
    <3>1. subs = {} /\ subs' = {}
      BY <1>2, <2>3 DEF Standing, TypeInv, TypeOK, StoreTypes, Subscription, vars
    <3>2. QED
      BY <3>1 DEF ConvergeInv, OneSubscriptionPerId, SubscribersAreCurrent
  <2>4. QED
    BY <2>1, <2>2, <2>3
<1>3. ASSUME NEW f \in FileIds, Answer(f) PROVE ConvergeInv'
  <2>1. PICK g \in FileIds :
           \E m \in held[g], shortage \in Shortages :
              \/ \E badFds \in {FALSE, BadReplyFds} : FunctionCallReply(f, m, badFds, shortage)
              \/ \E accepted \in BOOLEAN : StoreSubscriptionReply(f, m, accepted, shortage)
    BY <1>3 DEF Answer
  <2>2. \E m : \/ \E badFds : FunctionCallReply(f, m, badFds, {})
              \/ \E accepted : StoreSubscriptionReply(f, m, accepted, {})
    BY <1>1, <2>1
  <2>3. QED
    BY <2>1, <2>2, FunctionCallReplyConverges, StoreSubscriptionReplyConverges
<1>4. ASSUME NEW f \in FileIds, Write(f) PROVE ConvergeInv'
  <2>1. Visibilities \subseteq BOOLEAN
    BY MotherboardAssumption
  <2>2. QED
    BY <1>1, <1>4, <2>1, CreateConverges, StoreUpdateConverges, AnonymousStoreUpdateConverges
    DEF Write
<1>5. ASSUME NEW f \in FileIds, Subscribe(f) PROVE ConvergeInv'
  BY <1>1, <1>5, SubscribeConverges, StoreUnsubscribeConverges DEF Subscribe
<1>6. ASSUME NEW f \in FileIds, \E shortage \in Shortages : InboxNextMessage(f, shortage)
      PROVE  ConvergeInv'
  BY <1>6, InboxNextMessageConverges
<1>7. ASSUME NEW f \in FileIds, \E shortage \in Shortages : Close(f, shortage)
      PROVE  ConvergeInv'
  BY <1>7, CloseConverges
<1>8. QED
  BY <1>2, <1>3, <1>4, <1>5, <1>6, <1>7, QuietConverges DEF Next

(* A subscriber does not stay with an old value: whatever is written,      *)
(* accepted, ended and subscribed again in between, the last value on its  *)
(* way, or the last it fetched when none is, is the store's.  Without      *)
(* memory for its inbox, or without descriptors when it fetches, a value   *)
(* is lost in the code: the two hypotheses exclude that and nothing else.  *)
THEOREM SubscribersEndWithTheCurrentValue ==
    ASSUME AllocMayFail = FALSE, FdsMayRunOut = FALSE
    PROVE  Spec => []SubscribersConverge
<1>1. Init => ConvergeInv
  BY DEF Init, ConvergeInv, OneSubscriptionPerId, SubscribersAreCurrent
<1>2. TypeInv /\ TypeInv' /\ SubscriptionsAreAnchored /\ SubscriptionsAreAnchored' /\ StoreInv
      /\ ConvergeInv /\ [Next]_vars => ConvergeInv'
  <2> SUFFICES ASSUME TypeInv, TypeInv', SubscriptionsAreAnchored, SubscriptionsAreAnchored',
                      StoreInv, ConvergeInv, [Next]_vars
               PROVE  ConvergeInv'
    OBVIOUS
  <2>1. ValueStep
    BY EveryValueStep
  <2>2. Standing
    BY <2>1 DEF Standing
  <2>3. QED
    BY <2>2, NextConverges
<1>3. TypeInv /\ ConvergeInv => SubscribersConverge
  BY ConvergeInvSuffices
<1>4. QED
  BY <1>1, <1>2, <1>3, TypeInvariant, StoreInvariant, SubscriptionsHangOnLiveStores, PTL DEF Spec

-------------------------------------------------------------------------------
(***************************************************************************)
(* Latches.  A latch trips when the generation of its inbox has moved, so  *)
(* whatever brings work must move it, and forwards: a latch observed a     *)
(* generation of the past, of an inbox that is there as long as the latch  *)
(* is.  A process with two services may sleep through calls for one of     *)
(* them, because would_block looks at one service only (the run            *)
(* starved_service shows it); with one service it never does.              *)
(***************************************************************************)
HasOneService(f) == \A s, t \in ServicesOf(f) : s = t
Idle(f) == MessagesOf(f) = <<>> /\ \A s \in ServicesOf(f) : QueueOf(s) = <<>>

SleepsRightly(f) ==
    latch[f] # Nil =>
        /\ inboxes[f] # Nil /\ latch[f] <= inboxes[f].generation
        /\ HasOneService(f) /\ inboxes[f].generation = latch[f] => Idle(f)
SleepInv == \A f \in FileIds : SleepsRightly(f)

LEMMA SleepInvSuffices ==
    TypeInv /\ SleepInv => ((\A f \in open : HasOneService(f)) => NoLostWakeup)
<1> SUFFICES ASSUME TypeInv, SleepInv, \A f \in open : HasOneService(f),
                    NEW f \in open, latch[f] # Nil, ~PollLatch(inboxes[f], latch[f])
             PROVE  /\ ~HasMessage(inboxes[f])
                    /\ \A s \in ServicesOf(f) : services[s].queue = <<>>
  BY DEF NoLostWakeup
<1>1. f \in FileIds /\ MessagesOf(f) = Messages(inboxes[f])
  BY InboxesAreTyped DEF TypeInv, TypeOK, FileTypes
<1>2. inboxes[f] # Nil /\ inboxes[f].generation = latch[f]
  BY DEF PollLatch
<1>3. Idle(f)
  BY <1>1, <1>2 DEF SleepInv, SleepsRightly
<1>4. \A s \in ServicesOf(f) : services[s] # Nil
  BY DEF ServicesOf
<1>5. QED
  BY <1>1, <1>3, <1>4 DEF Idle, HasMessage, Messages, QueueOf

(* What a step does to the inbox and the services of a process that sleeps. *)
Trips(old, new) == old # Nil => new # Nil /\ old.generation < new.generation
LeftAlone(f) ==
    /\ inboxes'[f] = inboxes[f]
    /\ HasOneService(f)' => HasOneService(f)
    /\ \A s \in ServicesOf(f)' : QueueOf(s)' = <<>> \/ (s \in ServicesOf(f) /\ QueueOf(s)' = QueueOf(s))
SleepStep(f) == latch'[f] = latch[f] /\ (LeftAlone(f) \/ Trips(inboxes[f], inboxes'[f]))

LEMMA SleepStepKeeps ==
    ASSUME TypeInv, TypeInv', NEW f \in FileIds, SleepsRightly(f), SleepStep(f)
    PROVE  SleepsRightly(f)'
<1>1. /\ inboxes[f] \in MaybeInbox(Message) /\ inboxes'[f] \in MaybeInbox(Message)
      /\ latch[f] \in Nat \union {Nil} /\ latch'[f] = latch[f]
  BY DEF TypeInv, TypeOK, CallTypes, ProcessTypes, MaybeInbox, SleepStep
<1>2. \A b \in MaybeInbox(Message) : b # Nil => b.generation \in Nat
  BY DEF MaybeInbox, Inbox
<1>3. CASE latch[f] = Nil
  BY <1>1, <1>3 DEF SleepsRightly
<1>4. CASE latch[f] # Nil /\ Trips(inboxes[f], inboxes'[f])
  BY <1>1, <1>2, <1>4 DEF SleepsRightly, Trips
<1>5. CASE latch[f] # Nil /\ LeftAlone(f)
  <2>1. inboxes'[f] = inboxes[f] /\ MessagesOf(f)' = MessagesOf(f)
    BY <1>5, InboxesAreTyped, PrimedMessages DEF LeftAlone
  <2>2. Idle(f) => Idle(f)'
    BY <1>5, <2>1 DEF Idle, LeftAlone
  <2>3. HasOneService(f)' => HasOneService(f)
    BY <1>5 DEF LeftAlone
  <2>4. QED
    BY <1>1, <1>5, <2>1, <2>2, <2>3 DEF SleepsRightly
<1>6. QED
  BY <1>3, <1>4, <1>5 DEF SleepStep

LEMMA QueuingTrips ==
    ASSUME NEW box \in MaybeInbox(Message)
    PROVE  /\ Trips(box, Notify(box))
           /\ \A ms \in Seq(Message) : ms # <<>> => Trips(box, QueueAll(box, ms))
<1>1. CASE box = Nil
  BY <1>1 DEF Trips
<1>2. CASE box # Nil
  <2>1. box \in Inbox(Message) /\ box.generation \in Nat
    BY <1>2 DEF MaybeInbox, Inbox
  <2>2. Notify(box).generation = box.generation + 1
    BY <1>2, <2>1 DEF Notify, Inbox
  <2>3. \A ms : QueueAll(box, ms).generation = box.generation + Len(ms)
    BY <1>2 DEF QueueAll, Ensure
  <2>4. \A ms \in Seq(Message) : ms # <<>> => Len(ms) \in Nat /\ Len(ms) > 0
    BY EmptySeq, LenProperties
  <2>5. \A ms \in Seq(Message) : ms # <<>> => box.generation < QueueAll(box, ms).generation
    BY <2>1, <2>3, <2>4
  <2>6. QED
    BY <1>2, <2>1, <2>2, <2>5, BoxIsNotNil DEF Trips
<1>3. QED
  BY <1>1, <1>2

LEMMA SendTrips ==
    ASSUME NEW boxes \in [FileIds -> MaybeInbox(Message)], NEW f, NEW m \in Message,
           NEW shortage, NEW g \in FileIds
    PROVE  LET new == Send(boxes, f, m, shortage)[g] IN new = boxes[g] \/ Trips(boxes[g], new)
<1>1. Send(boxes, f, m, shortage)[g] \in {boxes[g], QueueAll(boxes[g], <<m>>)}
  BY DEF Send
<1>2. <<m>> \in Seq(Message) /\ <<m>> # <<>>
  OBVIOUS
<1>3. QED
  BY <1>1, <1>2, QueuingTrips

LEMMA PostTrips ==
    ASSUME NEW boxes \in [FileIds -> MaybeInbox(Message)], NEW notices, GoodNotices(notices),
           NEW mail \in Mailings(notices), NEW g \in FileIds
    PROVE  LET new == Post(boxes, mail)[g] IN new = boxes[g] \/ Trips(boxes[g], new)
<1>1. MailTo(mail, g) \in Seq(Message) /\ Len(MailTo(mail, g)) = Len(mail[g])
  BY PostMessages DEF MailPosted
<1>2. Post(boxes, mail)[g] = IF mail[g] = <<>> THEN boxes[g] ELSE QueueAll(boxes[g], MailTo(mail, g))
  BY DEF Post, MailTo
<1>3. mail[g] # <<>> => MailTo(mail, g) # <<>>
  <2>1. mail[g] \in Orders({n \in notices : n.to = g})
    BY DEF Mailings
  <2>2. IsFiniteSet({n \in notices : n.to = g})
    BY FS_Subset DEF GoodNotices
  <2>3. mail[g] \in Seq({n \in notices : n.to = g})
    BY <2>1, <2>2, OrderIsSeq
  <2>4. mail[g] # <<>> => Len(mail[g]) # 0
    BY <2>3, EmptySeq
  <2>5. QED
    BY <1>1, <2>4
<1>4. QED
  BY <1>1, <1>2, <1>3, QueuingTrips

BoxesTrip == \A g \in FileIds : inboxes'[g] = inboxes[g] \/ Trips(inboxes[g], inboxes'[g])

(* Most commands leave the services alone. *)
LEMMA BoxesTripSleep ==
    ASSUME TypeInv, TypeInv', SleepInv, services' = services, latch' = latch, BoxesTrip
    PROVE  SleepInv'
<1> SUFFICES ASSUME NEW f \in FileIds PROVE SleepsRightly(f)'
  BY DEF SleepInv
<1>1. /\ ServicesOf(f)' = ServicesOf(f) /\ (HasOneService(f)' <=> HasOneService(f))
      /\ \A s : QueueOf(s)' = QueueOf(s)
  BY DEF ServicesOf, HasOneService, QueueOf
<1>2. SleepStep(f)
  BY <1>1 DEF SleepStep, LeftAlone, BoxesTrip
<1>3. QED
  BY <1>2, SleepStepKeeps DEF SleepInv

LEMMA SentSleep ==
    ASSUME TypeInv, TypeInv', SleepInv, services' = services, latch' = latch,
           NEW f, NEW m \in Message, NEW shortage, inboxes' = Send(inboxes, f, m, shortage)
    PROVE  SleepInv'
<1>1. BoxesTrip
  BY SendTrips, InboxesAreTyped DEF BoxesTrip
<1>2. QED
  BY <1>1, BoxesTripSleep

LEMMA SameBoxesSleep ==
    ASSUME TypeInv, TypeInv', SleepInv, services' = services, latch' = latch, inboxes' = inboxes
    PROVE  SleepInv'
BY BoxesTripSleep DEF BoxesTrip

LEMMA BindServiceSleep ==
    ASSUME TypeInv, TypeInv', SleepInv, NEW f \in FileIds, NEW s \in ServiceNames, BindService(f, s)
    PROVE  SleepInv'
<1> SUFFICES ASSUME NEW g \in FileIds PROVE SleepsRightly(g)'
  BY DEF SleepInv
<1>1. /\ services[s] = Nil /\ services' = [services EXCEPT ![s] = [file |-> f, queue |-> <<>>]]
      /\ inboxes' = inboxes /\ latch' = latch
  BY DEF BindService, apps
<1>2. /\ services'[s].queue = <<>>
      /\ \A t \in ServiceNames : t # s => services'[t] = services[t]
  BY <1>1 DEF TypeInv, TypeOK, CallTypes
<1>3. ServicesOf(g) \subseteq ServicesOf(g)'
  BY <1>1, <1>2 DEF ServicesOf
<1>4. HasOneService(g)' => HasOneService(g)
  BY <1>3 DEF HasOneService
<1>5. \A t \in ServicesOf(g)' : QueueOf(t)' = <<>> \/ (t \in ServicesOf(g) /\ QueueOf(t)' = QueueOf(t))
  BY <1>2 DEF ServicesOf, QueueOf
<1>6. SleepStep(g)
  BY <1>1, <1>4, <1>5 DEF SleepStep, LeftAlone
<1>7. QED
  BY <1>6, SleepStepKeeps DEF SleepInv

LEMMA FunctionCallSleep ==
    ASSUME TypeInv, TypeInv', SleepInv, NEW f \in FileIds, NEW s \in ServiceNames, FunctionCall(f, s)
    PROVE  SleepInv'
<1> SUFFICES ASSUME NEW g \in FileIds PROVE SleepsRightly(g)'
  BY DEF SleepInv
<1>1. PICK q : services' = [services EXCEPT ![s].queue = q]
  BY DEF FunctionCall
<1>2. /\ services[s] # Nil /\ latch' = latch
      /\ inboxes' = [inboxes EXCEPT ![services[s].file] = Notify(@)]
  BY DEF FunctionCall
<1>3. /\ services \in [ServiceNames -> BoundService \union {Nil}]
      /\ services[s] \in BoundService
      /\ inboxes \in [FileIds -> MaybeInbox(Message)]
  BY <1>2, InboxesAreTyped DEF TypeInv, TypeOK, CallTypes, BoundService
<1>4. CASE g = services[s].file
  <2>1. inboxes'[g] = Notify(inboxes[g])
    BY <1>2, <1>3, <1>4
  <2>2. SleepStep(g)
    BY <1>2, <1>3, <2>1, QueuingTrips DEF SleepStep
  <2>3. QED
    BY <2>2, SleepStepKeeps DEF SleepInv
<1>5. CASE g # services[s].file
  <2>1. inboxes'[g] = inboxes[g]
    BY <1>2, <1>3, <1>5
  <2>2. /\ services'[s].file = services[s].file /\ services'[s] # Nil
        /\ \A t \in ServiceNames : t # s => services'[t] = services[t]
    <3>1. services'[s] = [services[s] EXCEPT !.queue = q]
      BY <1>1, <1>3
    <3>2. services'[s].file = services[s].file
      BY <1>3, <3>1 DEF BoundService
    <3>3. services'[s] # Nil
      <4>1. services'[s] \in BoundService \union {Nil} /\ DOMAIN services[s] = {"file", "queue"}
        BY <1>3 DEF TypeInv, TypeOK, CallTypes, BoundService
      <4>2. SameProviders
        BY FunctionCallKeepsProviders
      <4>3. QED
        BY <1>2, <4>2 DEF SameProviders
    <3>4. QED
      BY <1>1, <1>3, <3>2, <3>3
  <2>3. ServicesOf(g)' = ServicesOf(g) /\ s \notin ServicesOf(g)
    BY <1>5, <2>2 DEF ServicesOf
  <2>4. /\ HasOneService(g)' => HasOneService(g)
        /\ \A t \in ServicesOf(g)' : t \in ServicesOf(g) /\ QueueOf(t)' = QueueOf(t)
    BY <2>2, <2>3 DEF HasOneService, QueueOf, ServicesOf
  <2>5. SleepStep(g)
    BY <1>2, <2>1, <2>4 DEF SleepStep, LeftAlone
  <2>6. QED
    BY <2>5, SleepStepKeeps DEF SleepInv
<1>6. QED
  BY <1>4, <1>5

LEMMA FunctionCallReplySleep ==
    ASSUME TypeInv, TypeInv', SleepInv, NEW f \in FileIds, NEW m, NEW badFds, NEW shortage,
           FunctionCallReply(f, m, badFds, shortage)
    PROVE  SleepInv'
<1>1. services' = services /\ latch' = latch
  BY DEF FunctionCallReply
<1>2. CASE UNCHANGED inboxes
  BY <1>1, <1>2, SameBoxesSleep
<1>3. ASSUME NEW p \in Consumable(replyTokens, m.token, f),
             inboxes' = Send(inboxes, p.client, CallReplyOf(p), shortage)
      PROVE  SleepInv'
  <2>1. p \in PendingReply
    BY DEF Consumable, TypeInv, TypeOK, CallTypes
  <2>2. CallReplyOf(p) \in Message
    BY <2>1, MessageTypes
  <2>3. QED
    BY <1>1, <1>3, <2>2, SentSleep
<1>4. QED
  BY <1>2, <1>3 DEF FunctionCallReply

LEMMA UpdateSleep ==
    ASSUME TypeInv, TypeInv', SleepInv, services' = services, latch' = latch,
           NEW target \in Targets, NEW value \in Nat, NEW shortage,
           NEW notices \in Reached(UpdateNotices(target, value), shortage),
           NEW mail \in Mailings(notices), inboxes' = Post(inboxes, mail)
    PROVE  SleepInv'
<1>1. GoodNotices(notices)
  BY UpdateNoticesTypes DEF GoodNotices
<1>2. BoxesTrip
  BY <1>1, PostTrips, InboxesAreTyped DEF BoxesTrip
<1>3. QED
  BY <1>2, BoxesTripSleep

LEMMA WriteSleep ==
    ASSUME TypeInv, TypeInv', SleepInv, NEW f \in FileIds, Write(f)
    PROVE  SleepInv'
<1>1. services' = services /\ latch' = latch
  BY DEF Write, StoreCreate, StoreUpdate, AnonymousStoreCreate, AnonymousStoreUpdate, apps
<1>2. nextTimestamp \in Nat
  BY DEF TypeInv, TypeOK, StoreTypes
<1>3. CASE inboxes' = inboxes
  BY <1>1, <1>3, SameBoxesSleep
<1>4. ASSUME NEW t \in Paths, NEW shortage, StoreUpdate(f, t, shortage), inboxes' # inboxes
      PROVE  SleepInv'
  <2>1. PICK notices \in Reached(UpdateNotices(t, nextTimestamp), shortage) :
           \E mail \in Mailings(notices) : inboxes' = Post(inboxes, mail)
    BY <1>4 DEF StoreUpdate
  <2>2. t \in Targets
    BY PathsAreTargets
  <2>3. QED
    BY <1>1, <1>2, <2>1, <2>2, UpdateSleep
<1>5. ASSUME NEW a \in AnonymousIds, NEW shortage, AnonymousStoreUpdate(f, a, shortage)
      PROVE  SleepInv'
  <2>1. PICK notices \in Reached(UpdateNotices(Anonymous(a), nextTimestamp), shortage) :
           \E mail \in Mailings(notices) : inboxes' = Post(inboxes, mail)
    BY <1>5 DEF AnonymousStoreUpdate
  <2>2. Anonymous(a) \in Targets
    BY AnonymousIsTarget
  <2>3. QED
    BY <1>1, <1>2, <2>1, <2>2, UpdateSleep
<1>6. QED
  BY <1>3, <1>4, <1>5 DEF Write, StoreCreate, AnonymousStoreCreate

LEMMA AskSleep ==
    ASSUME TypeInv, TypeInv', SleepInv, services' = services, latch' = latch,
           NEW f \in FileIds, NEW id \in SubIds, NEW target \in Targets,
           NEW service \in FileIds, NEW shortage, Ask(f, id, target, service, shortage)
    PROVE  SleepInv'
<1> DEFINE entry(ts) == [token |-> ts[1], client |-> f, service |-> service,
                         id |-> id, target |-> target]
<1>1. PICK ts \in Allocate(subTokens, 1) :
         inboxes' = Send(inboxes, service, SubscribeRequestOf(entry(ts)), shortage)
  BY DEF Ask
<1>2. ts[1] \in Tokens
  <2>1. FreshTokens(subTokens, 1, ts)
    BY AllocateGivesFreshTokens
  <2>2. QED
    BY <2>1 DEF FreshTokens
<1>3. entry(ts) \in PendingSubscription
  BY <1>2 DEF PendingSubscription
<1> HIDE DEF entry
<1>4. SubscribeRequestOf(entry(ts)) \in Message
  BY <1>3, MessageTypes
<1>5. QED
  BY <1>1, <1>4, SentSleep

LEMMA SubscribeSleep ==
    ASSUME TypeInv, TypeInv', NamedStoresProvided, SleepInv,
           NEW f \in FileIds, Subscribe(f)
    PROVE  SleepInv'
<1>1. services' = services /\ latch' = latch
  BY DEF Subscribe, SubscribePublic, SubscribePrivate, AnonymousStoreSubscribe,
     StoreUnsubscribe, apps
<1>2. PICK id \in SubIds, shortage \in Shortages :
        \/ \E t \in Paths : SubscribePublic(f, t, id, shortage)
        \/ \E t \in Paths : SubscribePrivate(f, t, id, shortage)
        \/ \E a \in AnonymousIds : AnonymousStoreSubscribe(f, a, id, shortage)
        \/ StoreUnsubscribe(f, id, shortage)
  BY DEF Subscribe
<1>3. ASSUME NEW t \in Paths, SubscribePublic(f, t, id, shortage)
      PROVE  SleepInv'
  <2>1. PICK m : m = ValueMessage("Accepted", t, id, stores[t].value)
    OBVIOUS
  <2>2. stores[t] # Nil /\ inboxes' = Send(inboxes, f, m, shortage)
    BY <1>3, <2>1 DEF SubscribePublic
  <2>3. stores[t].value \in Nat /\ t \in Targets
    BY <2>2, PathsAreTargets DEF TypeInv, TypeOK, StoreTypes, NamedStore
  <2>4. m \in Message
    BY <2>1, <2>3, MessageTypes
  <2>5. QED
    BY <1>1, <2>2, <2>4, SentSleep
<1>4. ASSUME NEW t \in Paths, SubscribePrivate(f, t, id, shortage)
      PROVE  SleepInv'
  <2>1. stores[t] # Nil /\ Ask(f, id, t, services[t.service].file, shortage)
    BY <1>4 DEF SubscribePrivate
  <2>2. t \in Targets /\ t.service \in ServiceNames
    BY PathsAreTargets DEF Paths, NamedTargets
  <2>3. services[t.service].file \in FileIds
    BY <2>1, <2>2 DEF NamedStoresProvided, TypeInv, TypeOK, CallTypes, BoundService
  <2>4. QED
    BY <1>1, <2>1, <2>2, <2>3, AskSleep
<1>5. ASSUME NEW a \in AnonymousIds, AnonymousStoreSubscribe(f, a, id, shortage)
      PROVE  SleepInv'
  <2>1. anonymous[a] # Nil /\ Ask(f, id, Anonymous(a), anonymous[a].owner, shortage)
    BY <1>5 DEF AnonymousStoreSubscribe
  <2>2. anonymous[a].owner \in FileIds
    BY <2>1 DEF TypeInv, TypeOK, StoreTypes, AnonymousStore
  <2>3. QED
    BY <1>1, <2>1, <2>2, AnonymousIsTarget, AskSleep
<1>6. CASE StoreUnsubscribe(f, id, shortage)
  <2>1. PICK s \in OwnSubscription(subs, f, id) :
           IF IsAnonymous(s.target) /\ anonymous[s.target.anonymous] # Nil
           THEN inboxes' = Send(inboxes, anonymous[s.target.anonymous].owner,
                                EndMessage("Closed", s.target, id), shortage)
           ELSE inboxes' = inboxes
    BY <1>6 DEF StoreUnsubscribe
  <2>2. s.target \in Targets
    BY DEF OwnSubscription, TypeInv, TypeOK, StoreTypes, Subscription
  <2>3. EndMessage("Closed", s.target, id) \in Message
    BY <2>2, MessageTypes
  <2>4. CASE inboxes' = inboxes
    BY <1>1, <2>4, SameBoxesSleep
  <2>5. CASE inboxes' = Send(inboxes, anonymous[s.target.anonymous].owner,
                             EndMessage("Closed", s.target, id), shortage)
    BY <1>1, <2>3, <2>5, SentSleep
  <2>6. QED
    BY <2>1, <2>4, <2>5
<1>7. QED
  BY <1>2, <1>3, <1>4, <1>5, <1>6

LEMMA VerdictSleep ==
    ASSUME TypeInv, TypeInv', SleepInv, NEW f \in FileIds, NEW m, NEW accepted \in BOOLEAN,
           NEW shortage, StoreSubscriptionReply(f, m, accepted, shortage)
    PROVE  SleepInv'
<1>1. services' = services /\ latch' = latch
  BY DEF StoreSubscriptionReply
<1>2. CASE inboxes' = inboxes
  BY <1>1, <1>2, SameBoxesSleep
<1>3. ASSUME NEW p \in Consumable(subTokens, m.token, f), inboxes' # inboxes,
             \/ accepted /\ ~IsAnonymous(p.target) /\ AcceptNamed(p, shortage)
             \/ accepted /\ IsAnonymous(p.target) /\ AcceptAnonymous(p, shortage)
             \/ ~accepted /\ Reject(p, shortage)
      PROVE  SleepInv'
  <2>1. p.target \in Targets /\ p.id \in SubIds
    BY DEF Consumable, TypeInv, TypeOK, StoreTypes, PendingSubscription
  <2>2. CASE ~IsAnonymous(p.target) /\ AcceptNamed(p, shortage)
    <3>1. PICK n : n = ValueMessage("Accepted", p.target, p.id, stores[p.target].value)
      OBVIOUS
    <3>2. stores[p.target] # Nil /\ inboxes' = Send(inboxes, p.client, n, shortage)
      BY <1>3, <2>2, <3>1 DEF AcceptNamed
    <3>3. stores[p.target].value \in Nat
      BY <2>1, <2>2, <3>2, TargetTypes DEF TypeInv, TypeOK, StoreTypes, NamedStore
    <3>4. n \in Message
      BY <2>1, <3>1, <3>3, MessageTypes
    <3>5. QED
      BY <1>1, <3>2, <3>4, SentSleep
  <2>3. CASE IsAnonymous(p.target) /\ AcceptAnonymous(p, shortage)
    <3>1. PICK a : a = p.target.anonymous
      OBVIOUS
    <3>2. PICK n : n = ValueMessage("Accepted", p.target, p.id, anonymous[a].value)
      OBVIOUS
    <3>3. anonymous[a] # Nil /\ inboxes' = Send(inboxes, p.client, n, shortage)
      BY <1>3, <2>3, <3>1, <3>2 DEF AcceptAnonymous
    <3>4. anonymous[a].value \in Nat
      BY <2>1, <2>3, <3>1, <3>3, TargetTypes DEF TypeInv, TypeOK, StoreTypes, AnonymousStore
    <3>5. n \in Message
      BY <2>1, <3>2, <3>4, MessageTypes
    <3>6. QED
      BY <1>1, <3>3, <3>5, SentSleep
  <2>4. CASE Reject(p, shortage)
    <3>1. EndMessage("Rejected", p.target, p.id) \in Message
      BY <2>1, MessageTypes
    <3>2. inboxes' = Send(inboxes, p.client, EndMessage("Rejected", p.target, p.id), shortage)
      BY <2>4 DEF Reject
    <3>3. QED
      BY <1>1, <3>1, <3>2, SentSleep
  <2>5. QED
    BY <1>3, <2>2, <2>3, <2>4
<1>4. QED
  BY <1>2, <1>3 DEF StoreSubscriptionReply

(* A process that fetched is awake or took a latch for what it saw; the    *)
(* others do not notice.                                                   *)
LEMMA InboxNextMessageSleep ==
    ASSUME TypeInv, TypeInv', SleepInv, NEW f \in FileIds, NEW shortage,
           InboxNextMessage(f, shortage)
    PROVE  SleepInv'
<1>1. /\ inboxes \in [FileIds -> MaybeInbox(Message)]
      /\ services \in [ServiceNames -> BoundService \union {Nil}]
      /\ services' \in [ServiceNames -> BoundService \union {Nil}]
      /\ latch \in [FileIds -> Nat \union {Nil}]
  BY InboxesAreTyped DEF TypeInv, TypeOK, CallTypes, ProcessTypes, BoundService
<1>2. \A g \in FileIds : g # f => inboxes'[g] = inboxes[g] /\ latch'[g] = latch[g]
  BY <1>1 DEF InboxNextMessage, PopMessage, FlushRequests, WouldBlock
<1>3. ASSUME NEW s \in ServiceNames
      PROVE  \/ services'[s] = services[s]
             \/ s \in ServicesOf(f) /\ services'[s] # Nil /\ services'[s].file = f
                                    /\ services'[s].queue = <<>>
  <2>1. CASE services' = services
    BY <2>1
  <2>2. ASSUME NEW t \in ServicesOf(f), FlushRequests(f, t, shortage)
        PROVE  \/ services'[s] = services[s]
               \/ s \in ServicesOf(f) /\ services'[s] # Nil /\ services'[s].file = f
                                      /\ services'[s].queue = <<>>
    <3>1. services' = [services EXCEPT ![t].queue = <<>>] /\ t \in ServiceNames
      BY <2>2 DEF FlushRequests, ServicesOf
    <3>2. CASE s # t
      BY <1>1, <3>1, <3>2
    <3>3. CASE s = t
      <4>1. services[t] \in BoundService /\ services[t].file = f
        BY <1>1, <3>1 DEF ServicesOf
      <4>2. services'[t] = [services[t] EXCEPT !.queue = <<>>]
        BY <1>1, <3>1
      <4>3. services'[t] = [file |-> f, queue |-> <<>>]
        BY <4>1, <4>2 DEF BoundService
      <4>4. services'[t] \in [file : FileIds, queue : Seq(QueuedRequest)]
        BY <4>3
      <4>5. services'[t] # Nil
        BY <4>4, NilAssumption
      <4>6. QED
        BY <3>3, <4>3, <4>5
    <3>4. QED
      BY <3>2, <3>3
  <2>3. QED
    BY <2>1, <2>2 DEF InboxNextMessage, PopMessage, WouldBlock
<1>4. ASSUME NEW g \in FileIds, g # f PROVE SleepsRightly(g)'
  <2>1. ServicesOf(g)' = ServicesOf(g)
    BY <1>3, <1>4 DEF ServicesOf
  <2>2. \A s \in ServicesOf(g) : services'[s] = services[s]
    BY <1>3, <1>4 DEF ServicesOf
  <2>3. LeftAlone(g)
    BY <1>2, <1>4, <2>1, <2>2 DEF LeftAlone, HasOneService, QueueOf, ServicesOf
  <2>4. QED
    BY <1>2, <1>4, <2>3, SleepStepKeeps DEF SleepInv, SleepStep
<1>5. SleepsRightly(f)'
  <2>1. CASE latch'[f] = Nil
    BY <2>1 DEF SleepsRightly
  <2>2. CASE latch'[f] # Nil
    <3>1. WouldBlock(f, shortage) /\ latch' = [latch EXCEPT ![f] = Ensure(inboxes[f]).generation]
      BY <1>1, <2>2 DEF InboxNextMessage, PopMessage, FlushRequests, WouldBlock
    <3>2. inboxes' = [inboxes EXCEPT ![f] = Ensure(@)] \/ inboxes' = inboxes
      BY <3>1 DEF WouldBlock
    <3>3. f \notin shortage /\ inboxes' = [inboxes EXCEPT ![f] = Ensure(@)]
      BY <1>1, <2>2, <3>1 DEF WouldBlock
    <3>4. PICK box : box = Ensure(inboxes[f])
      OBVIOUS
    <3>5. box \in Inbox(Message) /\ box # Nil /\ box.generation \in Nat
      <4>1. box \in Inbox(Message)
        BY <1>1, <3>4, EnsureIsInbox
      <4>2. QED
        BY <4>1, NilAssumption DEF Inbox
    <3>6. inboxes'[f] = box /\ latch'[f] = box.generation
      BY <1>1, <3>1, <3>3, <3>4
    <3>7. MessagesOf(f)' = <<>>
      <4>1. ~HasMessage(inboxes[f])
        BY <3>1 DEF WouldBlock
      <4>2. Messages(inboxes[f]) = <<>>
        BY <4>1 DEF HasMessage, Messages
      <4>3. Messages(box) = Messages(inboxes[f])
        BY <1>1, <3>4, EnsureMessages
      <4>4. QED
        BY <3>6, <4>2, <4>3, PrimedMessages
    <3>8. services' = services
      BY <3>1 DEF WouldBlock
    <3>9. HasOneService(f)' => \A s \in ServicesOf(f)' : QueueOf(s)' = <<>>
      <4>1. ServicesOf(f) # {} => \E s \in ServicesOf(f) : services[s].queue = <<>>
        BY <3>1 DEF WouldBlock
      <4>2. ServicesOf(f)' = ServicesOf(f) /\ (HasOneService(f)' => HasOneService(f))
        BY <3>8 DEF ServicesOf, HasOneService
      <4>3. HasOneService(f) => \A s \in ServicesOf(f) : services[s].queue = <<>>
        BY <4>1 DEF HasOneService
      <4>4. QED
        BY <3>8, <4>2, <4>3 DEF QueueOf
    <3>10. QED
      BY <3>5, <3>6, <3>7, <3>9 DEF SleepsRightly, Idle
  <2>3. QED
    BY <2>1, <2>2
<1>6. QED
  BY <1>4, <1>5 DEF SleepInv

LEMMA CloseSleep ==
    ASSUME TypeInv, TypeInv', SleepInv, NEW f \in FileIds, NEW shortage, Close(f, shortage)
    PROVE  SleepInv'
<1> DEFINE told(rank) ==
               {n \in PendingNotices(f) \union OwnerNotices(f) \union ExitNotices(f, rank) :
                    n.to \notin shortage}
           all(rank) == told(rank) \union ServiceClosedNotices(f, rank, told(rank))
           boxes == [inboxes EXCEPT ![f] = Nil]
<1>1. PICK rank \in Ranks(f) : \E mail \in Mailings(all(rank)) : inboxes' = Post(boxes, mail)
  BY DEF Close
<1>2. GoodNotices(told(rank))
  <2>1. GoodNotices(PendingNotices(f) \union OwnerNotices(f) \union ExitNotices(f, rank))
    BY PendingNoticesTypes, OwnerNoticesTypes, ExitNoticesTypes, GoodUnion
  <2>2. QED
    BY <2>1, GoodSubset
<1> HIDE DEF told
<1>3. GoodNotices(all(rank))
  <2>1. GoodNotices(ServiceClosedNotices(f, rank, told(rank)))
    BY <1>2, ServiceClosedNoticesTypes
  <2>2. QED
    BY <1>2, <2>1, GoodUnion
<1> HIDE DEF all
<1>4. /\ boxes \in [FileIds -> MaybeInbox(Message)]
      /\ \A g \in FileIds : g # f => boxes[g] = inboxes[g]
  BY InboxesAreTyped DEF MaybeInbox
<1> HIDE DEF boxes
<1>5. /\ latch' = [latch EXCEPT ![f] = Nil] /\ latch \in [FileIds -> Nat \union {Nil}]
      /\ services' = [s \in ServiceNames |-> IF s \in ServicesOf(f) THEN Nil ELSE services[s]]
  BY DEF Close, TypeInv, TypeOK, ProcessTypes
<1>6. ASSUME NEW g \in FileIds, g # f PROVE SleepsRightly(g)'
  <2>1. inboxes'[g] = inboxes[g] \/ Trips(inboxes[g], inboxes'[g])
    BY <1>1, <1>3, <1>4, <1>6, PostTrips
  <2>2. ServicesOf(g)' = ServicesOf(g) /\ \A s \in ServicesOf(g) : services'[s] = services[s]
    BY <1>5, <1>6 DEF ServicesOf
  <2>3. inboxes'[g] = inboxes[g] => LeftAlone(g)
    BY <2>2 DEF LeftAlone, HasOneService, QueueOf, ServicesOf
  <2>4. latch'[g] = latch[g]
    BY <1>5, <1>6
  <2>5. QED
    BY <2>1, <2>3, <2>4, SleepStepKeeps DEF SleepInv, SleepStep
<1>7. SleepsRightly(f)'
  BY <1>5 DEF SleepsRightly
<1>8. QED
  BY <1>6, <1>7 DEF SleepInv

LEMMA NextSleep ==
    ASSUME TypeInv, TypeInv', NamedStoresProvided, SleepInv, [Next]_vars
    PROVE  SleepInv'
<1>1. CASE UNCHANGED vars
  BY <1>1, SameBoxesSleep DEF vars
<1>2. ASSUME NEW f \in FileIds, Open(f) PROVE SleepInv'
  BY <1>2, SameBoxesSleep DEF Open, apps
<1>3. ASSUME NEW f \in FileIds, Answer(f) PROVE SleepInv'
  BY <1>3, FunctionCallReplySleep, VerdictSleep DEF Answer
<1>4. ASSUME NEW f \in FileIds, \E shortage \in Shortages : InboxNextMessage(f, shortage)
      PROVE  SleepInv'
  BY <1>4, InboxNextMessageSleep
<1>5. ASSUME NEW f \in FileIds, \E shortage \in Shortages : Close(f, shortage)
      PROVE  SleepInv'
  BY <1>5, CloseSleep
<1>6. QED
  BY <1>1, <1>2, <1>3, <1>4, <1>5, BindServiceSleep, FunctionCallSleep, WriteSleep,
     SubscribeSleep DEF Next

(* A process that waits on a latch that will not trip by itself has        *)
(* nothing to fetch, neither a message nor a call, whatever was queued     *)
(* between the answer WouldBlock and its sleep: as long as no connection   *)
(* provides two services, which the run starved_service refutes.           *)
THEOREM SleepersHaveNothingToDo ==
    Spec => []((\A f \in open : HasOneService(f)) => NoLostWakeup)
<1>1. Init => SleepInv
  BY DEF Init, SleepInv, SleepsRightly
<1>2. TypeInv /\ TypeInv' /\ NamedStoresProvided /\ SleepInv /\ [Next]_vars => SleepInv'
  BY NextSleep
<1>3. TypeInv /\ SleepInv => ((\A f \in open : HasOneService(f)) => NoLostWakeup)
  BY SleepInvSuffices
<1>4. QED
  BY <1>1, <1>2, <1>3, TypeInvariant, ProvidedInvariant, PTL DEF Spec
===============================================================================
