--------------------------- MODULE MotherboardTypes ---------------------------
(***************************************************************************)
(* Every step of Motherboard keeps the types, for every instance; and what *)
(* the other proofs about the bus rest on: what each command appends to    *)
(* which inbox, and that what is posted to a connection is in its inbox    *)
(* after the step unless the inbox could not be allocated.                 *)
(***************************************************************************)
EXTENDS MotherboardProperties, ReplyTokensProofs, FiniteSetTheorems, SequenceTheorems

(* What the operators of Inboxes return on an inbox or none. *)
MaybeInbox(M) == Inbox(M) \union {Nil}

LEMMA EnsureIsInbox ==
    ASSUME NEW M, NEW box \in MaybeInbox(M)
    PROVE  Ensure(box) \in Inbox(M)
BY EmptySeq DEF MaybeInbox, Ensure, NewInbox, Inbox

LEMMA QueueAllIsInbox ==
    ASSUME NEW M, NEW box \in MaybeInbox(M), NEW ms \in Seq(M)
    PROVE  QueueAll(box, ms) \in Inbox(M)
<1>1. Ensure(box) \in Inbox(M)
  BY EnsureIsInbox
<1>2. Ensure(box).messages \o ms \in Seq(M) /\ Len(ms) \in Nat
  BY <1>1, ConcatProperties, LenProperties DEF Inbox
<1>3. QED
  BY <1>1, <1>2 DEF QueueAll, Inbox

LEMMA NotifyIsInbox ==
    ASSUME NEW M, NEW box \in MaybeInbox(M)
    PROVE  Notify(box) \in MaybeInbox(M)
BY DEF MaybeInbox, Notify, Inbox

LEMMA PopIsInbox ==
    ASSUME NEW M, NEW box \in MaybeInbox(M), HasMessage(box)
    PROVE  /\ Pop(box) \in Inbox(M)
           /\ Head(box.messages) \in M
<1>1. box \in Inbox(M) /\ box.messages \in Seq(M) /\ box.messages # <<>>
  BY DEF MaybeInbox, HasMessage, Inbox
<1>2. Head(box.messages) \in M /\ Tail(box.messages) \in Seq(M)
  BY <1>1, HeadTailProperties
<1>3. QED
  BY <1>1, <1>2 DEF Pop, Inbox

-------------------------------------------------------------------------------
(* Targets, anonymous stores and messages *)

LEMMA TargetTypes ==
    ASSUME NEW t \in Targets
    PROVE  /\ ~IsAnonymous(t) => t \in Paths /\ t.service \in ServiceNames
           /\ IsAnonymous(t) => t.anonymous \in AnonymousIds /\ t = Anonymous(t.anonymous)
<1>1. CASE t \in Paths
  <2>1. DOMAIN t = {"service", "store"}
    BY <1>1 DEF Paths, NamedTargets
  <2>2. QED
    BY <1>1, <2>1 DEF IsAnonymous, Paths, NamedTargets
<1>2. CASE t \in AnonymousTargets(AnonymousIds)
  BY <1>2 DEF IsAnonymous, AnonymousTargets, Anonymous
<1>3. QED
  BY <1>1, <1>2 DEF Targets

LEMMA AnonymousIsTarget ==
    ASSUME NEW a \in AnonymousIds
    PROVE  Anonymous(a) \in Targets /\ IsAnonymous(Anonymous(a)) /\ Anonymous(a).anonymous = a
BY DEF Anonymous, Targets, AnonymousTargets, IsAnonymous

AStore == AnonymousStore(ServiceNames, FileIds)
MaybeAStore == AStore \union {Nil}

LEMMA SaturatingSubType ==
    ASSUME NEW m \in Nat, NEW n \in Nat
    PROVE  SaturatingSub(m, n) \in Nat
BY DEF SaturatingSub

(* The count-downs of the two counters give a store or remove it. *)
LEMMA DecrementType ==
    ASSUME NEW x \in MaybeAStore, NEW m \in Nat, NEW n \in Nat
    PROVE  Decrement(x, m, n) \in MaybeAStore
<1>1. CASE x = Nil \/ (m = 0 /\ n = 0)
  BY <1>1 DEF Decrement
<1>2. CASE ~(x = Nil \/ (m = 0 /\ n = 0))
  <2> DEFINE y == [x EXCEPT !.pending = SaturatingSub(@, m), !.accepted = SaturatingSub(@, n)]
  <2>1. x \in AStore
    BY <1>2 DEF MaybeAStore
  <2>2. SaturatingSub(x.pending, m) \in Nat /\ SaturatingSub(x.accepted, n) \in Nat
    BY <2>1, SaturatingSubType DEF AStore, AnonymousStore
  <2>3. y \in AStore
    BY <2>1, <2>2 DEF AStore, AnonymousStore
  <2>4. Decrement(x, m, n) = CleanupIfUnused(y)
    BY <1>2 DEF Decrement
  <2>5. QED
    BY <2>3, <2>4 DEF CleanupIfUnused, MaybeAStore
<1>3. QED
  BY <1>1, <1>2

LEMMA CountingTypes ==
    ASSUME NEW x \in AStore
    PROVE  IncrementPending(x) \in AStore /\ AcceptPending(x) \in AStore
<1>0. x.pending \in Nat /\ x.accepted \in Nat
  BY DEF AStore, AnonymousStore
<1>1. /\ x.pending + 1 \in Nat /\ x.accepted + 1 \in Nat
      /\ SaturatingSub(x.pending, 1) \in Nat
  BY <1>0 DEF SaturatingSub
<1>2. IncrementPending(x) \in AStore
  BY <1>1 DEF AStore, AnonymousStore, IncrementPending
<1>3. AcceptPending(x) \in AStore
  BY <1>1 DEF AStore, AnonymousStore, AcceptPending
<1>4. QED
  BY <1>2, <1>3

LEMMA MessageTypes ==
    /\ \A p \in PendingReply : CallReplyOf(p) \in Message
    /\ \A p \in PendingSubscription :
          SubscribeRequestOf(p) \in SubscribeRequest /\ SubscribeRequestOf(p) \in Message
    /\ \A t \in Targets, id \in SubIds, v \in Nat :
          /\ ValueMessage("Accepted", t, id, v) \in Message
          /\ ValueMessage("Updated", t, id, v) \in Message
    /\ \A t \in Targets, id \in SubIds :
          /\ EndMessage("Rejected", t, id) \in Message
          /\ EndMessage("Closed", t, id) \in Message
    /\ \A s \in ServiceNames : [type |-> "ServiceClosed", service |-> s] \in Message
<1>1. \A p \in PendingReply : CallReplyOf(p) \in Message
  BY DEF PendingReply, CallReplyOf, Message
<1>2. \A p \in PendingSubscription :
          SubscribeRequestOf(p) \in SubscribeRequest /\ SubscribeRequestOf(p) \in Message
  BY DEF PendingSubscription, SubscribeRequestOf, SubscribeRequest, Message
<1>3. \A t \in Targets, id \in SubIds, v \in Nat :
          /\ ValueMessage("Accepted", t, id, v) \in Message
          /\ ValueMessage("Updated", t, id, v) \in Message
  BY DEF ValueMessage, Message
<1>4. \A t \in Targets, id \in SubIds :
          /\ EndMessage("Rejected", t, id) \in Message
          /\ EndMessage("Closed", t, id) \in Message
  BY DEF EndMessage, Message
<1>5. \A s \in ServiceNames : [type |-> "ServiceClosed", service |-> s] \in Message
  BY DEF Message
<1>6. QED
  BY <1>1, <1>2, <1>3, <1>4, <1>5

LEMMA MessageKinds ==
    ASSUME NEW m \in Message
    PROVE  /\ m.type = "FunctionCallRequest" => m \in CallRequest
           /\ m.type = "SubscribeRequest" => m \in SubscribeRequest
           /\ m.type \in {"Accepted", "Updated"} =>
                  m.target \in Targets /\ m.id \in SubIds /\ m.value \in Nat
BY DEF Message, CallRequest, SubscribeRequest

-------------------------------------------------------------------------------
(* Notices, their orders and what they do to the inboxes *)

(* An order of finitely many notices is a sequence of them. *)
LEMMA OrderIsSeq ==
    ASSUME NEW S, IsFiniteSet(S), NEW q \in Orders(S)
    PROVE  q \in Seq(S) /\ Len(q) \in Nat
<1>1. Cardinality(S) \in Nat
  BY FS_CardinalityType
<1>2. q \in [1 .. Cardinality(S) -> S]
  BY DEF Orders, SetToSeqs
<1>3. q \in Seq(S)
  BY <1>1, <1>2, SeqDef
<1>4. QED
  BY <1>3, LenProperties

NoticesAreTyped(notices) == \A n \in notices : n.message \in Message

LEMMA PostType ==
    ASSUME NEW boxes \in [FileIds -> MaybeInbox(Message)],
           NEW notices, IsFiniteSet(notices), NoticesAreTyped(notices),
           NEW mail \in Mailings(notices)
    PROVE  Post(boxes, mail) \in [FileIds -> MaybeInbox(Message)]
<1> SUFFICES ASSUME NEW f \in FileIds
             PROVE  (IF mail[f] = <<>> THEN boxes[f]
                     ELSE QueueAll(boxes[f], [i \in 1 .. Len(mail[f]) |-> mail[f][i].message]))
                    \in MaybeInbox(Message)
  BY DEF Post
<1> DEFINE mine == {n \in notices : n.to = f}
           ms == [i \in 1 .. Len(mail[f]) |-> mail[f][i].message]
<1>1. mail[f] \in Orders(mine)
  BY DEF Mailings
<1>2. IsFiniteSet(mine)
  BY FS_Subset
<1>3. mail[f] \in Seq(mine) /\ Len(mail[f]) \in Nat
  BY <1>1, <1>2, OrderIsSeq
<1>4. \A i \in 1 .. Len(mail[f]) : mail[f][i] \in notices
  BY <1>3, ElementOfSeq
<1>5. \A i \in 1 .. Len(mail[f]) : mail[f][i].message \in Message
  BY <1>4 DEF NoticesAreTyped
<1>6. ms \in [1 .. Len(mail[f]) -> Message]
  BY <1>5
<1>7. ms \in Seq(Message)
  BY <1>3, <1>6, SeqDef
<1>8. QueueAll(boxes[f], ms) \in MaybeInbox(Message)
  BY <1>7, QueueAllIsInbox DEF MaybeInbox
<1>9. QED
  BY <1>8

(* A set given by a function of the elements of a finite set is finite. *)
LEMMA FiniteImage ==
    ASSUME NEW S, IsFiniteSet(S), NEW T, NEW g \in [S -> T],
           \A t \in T : \E s \in S : g[s] = t
    PROVE  IsFiniteSet(T)
BY FS_Surjection DEF Surjection

LEMMA SendType ==
    ASSUME NEW boxes \in [FileIds -> MaybeInbox(Message)],
           NEW f \in FileIds, NEW m \in Message, NEW shortage
    PROVE  Send(boxes, f, m, shortage) \in [FileIds -> MaybeInbox(Message)]
<1>1. <<m>> \in Seq(Message)
  OBVIOUS
<1>2. QueueAll(boxes[f], <<m>>) \in MaybeInbox(Message)
  BY <1>1, QueueAllIsInbox DEF MaybeInbox
<1>3. QED
  BY <1>2 DEF Send

-------------------------------------------------------------------------------
(* The inductive invariant.  The types alone are not inductive: a command  *)
(* that notifies puts its notices into a sequence, so there are finitely   *)
(* many subscriptions, and a private store is asked for at the file that   *)
(* provides its service, so there is one.                                  *)

Finite == IsFiniteSet(subs) /\ IsFiniteSet(subTokens.pending)

BoundService == [file : FileIds, queue : Seq(QueuedRequest)]

StoresAreProvided ==
    \A t \in Paths : stores[t] # Nil => services[t.service] \in BoundService

TypeInv == TypeOK /\ Finite /\ StoresAreProvided

LEMMA InitTypes == Init => TypeInv
<1> SUFFICES ASSUME Init PROVE TypeInv
  OBVIOUS
<1>1. NoTokens \in [next : Tokens, pending : SUBSET PendingReply]
  BY U64MaxAssumption DEF NoTokens, Tokens
<1>2. NoTokens \in [next : Tokens, pending : SUBSET PendingSubscription]
  BY U64MaxAssumption DEF NoTokens, Tokens
<1>3. CallTypes
  BY <1>1 DEF Init, CallTypes
<1>4. StoreTypes
  BY <1>2 DEF Init, StoreTypes
<1>5. FileTypes
  BY DEF Init, FileTypes
<1>6. ProcessTypes
  BY DEF Init, ProcessTypes
<1>7. Finite
  BY FS_EmptySet DEF Init, Finite, NoTokens
<1>8. StoresAreProvided
  BY DEF Init, StoresAreProvided
<1>9. QED
  BY <1>3, <1>4, <1>5, <1>6, <1>7, <1>8 DEF TypeInv, TypeOK

LEMMA StutterTypes == TypeInv /\ UNCHANGED vars => TypeInv'
BY DEF TypeInv, TypeOK, CallTypes, StoreTypes, FileTypes, ProcessTypes, Finite, StoresAreProvided, vars

LEMMA OpenTypes ==
    ASSUME TypeInv, NEW f \in FileIds, Open(f)
    PROVE  TypeInv'
<1>1. CallTypes' /\ StoreTypes' /\ ProcessTypes' /\ Finite' /\ StoresAreProvided'
  BY DEF TypeInv, TypeOK, CallTypes, StoreTypes, ProcessTypes, Finite,
         StoresAreProvided, Open, tables, storeVars, apps
<1>2. FileTypes'
  BY DEF TypeInv, TypeOK, FileTypes, Open
<1>3. QED
  BY <1>1, <1>2 DEF TypeInv, TypeOK

LEMMA BindServiceTypes ==
    ASSUME TypeInv, NEW f \in FileIds, NEW s \in ServiceNames, BindService(f, s)
    PROVE  TypeInv'
<1>1. StoreTypes' /\ ProcessTypes' /\ FileTypes' /\ Finite'
  BY DEF TypeInv, TypeOK, FileTypes, StoreTypes, ProcessTypes, Finite,
         BindService, tables, storeVars, bookkeeping, apps
<1>2. [file |-> f, queue |-> <<>>] \in [file : FileIds, queue : Seq(QueuedRequest)]
  BY EmptySeq
<1>3. CallTypes'
  BY <1>2 DEF TypeInv, TypeOK, CallTypes, BindService, tables
<1>4. StoresAreProvided'
  BY <1>2 DEF TypeInv, TypeOK, CallTypes, StoresAreProvided, BoundService, BindService, storeVars
<1>5. QED
  BY <1>1, <1>3, <1>4 DEF TypeInv, TypeOK

LEMMA FunctionCallTypes ==
    ASSUME TypeInv, NEW f \in FileIds, NEW s \in ServiceNames, FunctionCall(f, s)
    PROVE  TypeInv'
<1> DEFINE call == lastCall[f] + 1
           request == [client |-> f, origin |-> origin[f], call |-> call]
           Service == [file : FileIds, queue : Seq(QueuedRequest)]
<1>1. call \in CallIds
  BY MotherboardAssumption DEF TypeInv, TypeOK, FileTypes, FunctionCall, CallIds
<1>2. request \in QueuedRequest
  BY <1>1 DEF TypeInv, TypeOK, FileTypes, QueuedRequest
<1>3. services[s] \in Service
  BY DEF TypeInv, TypeOK, CallTypes, FunctionCall
<1>4. Append(services[s].queue, request) \in Seq(QueuedRequest)
  BY <1>2, <1>3
<1>5. services' \in [ServiceNames -> Service \union {Nil}]
  <2>1. services' = [services EXCEPT ![s].queue = Append(@, request)]
    BY DEF FunctionCall
  <2>2. [services[s] EXCEPT !.queue = Append(@, request)] \in Service
    BY <1>3, <1>4
  <2>3. QED
    BY <2>1, <2>2 DEF TypeInv, TypeOK, CallTypes
<1>6. inboxes' \in [FileIds -> MaybeInbox(Message)]
  <2>1. services[s].file \in FileIds
    BY <1>3
  <2>2. Notify(inboxes[services[s].file]) \in MaybeInbox(Message)
    BY <2>1, NotifyIsInbox DEF TypeInv, TypeOK, CallTypes, MaybeInbox
  <2>3. QED
    BY <2>2 DEF TypeInv, TypeOK, CallTypes, FunctionCall, MaybeInbox
<1>7. CallTypes'
  BY <1>5, <1>6 DEF TypeInv, TypeOK, CallTypes, FunctionCall, tables, MaybeInbox
<1>8. StoreTypes' /\ Finite'
  BY DEF TypeInv, TypeOK, StoreTypes, Finite, FunctionCall, tables, storeVars
<1>9. FileTypes'
  BY DEF TypeInv, TypeOK, FileTypes, FunctionCall
<1>10. ProcessTypes'
  <2>1. [call |-> call, service |-> s, inboxed |-> inboxes[f] # Nil]
          \in [call : CallIds, service : ServiceNames, inboxed : BOOLEAN]
    BY <1>1
  <2>2. QED
    BY <2>1 DEF TypeInv, TypeOK, ProcessTypes, FunctionCall
<1>11. StoresAreProvided'
  <2>1. \A r \in ServiceNames :
            services'[r] = IF r = s THEN [services[s] EXCEPT !.queue = Append(@, request)]
                           ELSE services[r]
    BY DEF FunctionCall, TypeInv, TypeOK, CallTypes
  <2>2. [services[s] EXCEPT !.queue = Append(@, request)] \in BoundService
    BY <1>3, <1>4 DEF BoundService
  <2>3. \A t \in Paths : t.service \in ServiceNames
    BY DEF Paths, NamedTargets
  <2>4. UNCHANGED stores
    BY DEF FunctionCall, storeVars
  <2>5. QED
    BY <2>1, <2>2, <2>3, <2>4 DEF TypeInv, StoresAreProvided
<1>12. QED
  BY <1>7, <1>8, <1>9, <1>10, <1>11 DEF TypeInv, TypeOK

(* Giving up a request, removing entries from a table. *)
LEMMA DiscardTypes ==
    ASSUME NEW E, NEW tbl \in [next : Tokens, pending : SUBSET E], NEW entries
    PROVE  /\ Discard(tbl, entries) \in [next : Tokens, pending : SUBSET E]
           /\ IsFiniteSet(tbl.pending) => IsFiniteSet(Discard(tbl, entries).pending)
<1>1. Discard(tbl, entries) = [next |-> tbl.next, pending |-> tbl.pending \ entries]
  BY DEF Discard
<1>2. IsFiniteSet(tbl.pending) => IsFiniteSet(tbl.pending \ entries)
  BY FS_Difference
<1>3. QED
  BY <1>1, <1>2

LEMMA FunctionCallReplyTypes ==
    ASSUME TypeInv, NEW f \in FileIds, NEW m, NEW badFds, NEW shortage,
           FunctionCallReply(f, m, badFds, shortage)
    PROVE  TypeInv'
<1>1. StoreTypes' /\ FileTypes' /\ Finite' /\ StoresAreProvided'
  BY DEF TypeInv, TypeOK, StoreTypes, FileTypes, Finite, StoresAreProvided, FunctionCallReply,
         storeVars, bookkeeping
<1>2. ProcessTypes'
  BY DEF TypeInv, TypeOK, ProcessTypes, FunctionCallReply
<1> DEFINE consumed == Consumable(replyTokens, m.token, f)
<1>3. ASSUME UNCHANGED <<replyTokens, inboxes>>
      PROVE  CallTypes'
  BY <1>3 DEF TypeInv, TypeOK, CallTypes, FunctionCallReply
<1>4. ASSUME \E p \in consumed :
                /\ replyTokens' = Discard(replyTokens, consumed)
                /\ IF badFds THEN UNCHANGED inboxes
                   ELSE inboxes' = Send(inboxes, p.client, CallReplyOf(p), shortage)
      PROVE  CallTypes'
  <2>1. PICK p \in consumed :
              /\ replyTokens' = Discard(replyTokens, consumed)
              /\ IF badFds THEN UNCHANGED inboxes
                 ELSE inboxes' = Send(inboxes, p.client, CallReplyOf(p), shortage)
    BY <1>4
  <2>2. p \in PendingReply
    BY DEF Consumable, TypeInv, TypeOK, CallTypes
  <2>3. p.client \in FileIds /\ CallReplyOf(p) \in Message
    BY <2>2, MessageTypes DEF PendingReply
  <2>4. replyTokens' \in [next : Tokens, pending : SUBSET PendingReply]
    BY <2>1, DiscardTypes DEF TypeInv, TypeOK, CallTypes
  <2>5. inboxes \in [FileIds -> MaybeInbox(Message)]
    BY DEF TypeInv, TypeOK, CallTypes, MaybeInbox
  <2>6. inboxes' \in [FileIds -> MaybeInbox(Message)]
    BY <2>1, <2>3, <2>5, SendType
  <2>7. QED
    BY <2>4, <2>6 DEF TypeInv, TypeOK, CallTypes, FunctionCallReply, MaybeInbox
<1>5. CallTypes'
  BY <1>3, <1>4 DEF FunctionCallReply
<1>6. QED
  BY <1>1, <1>2, <1>5 DEF TypeInv, TypeOK

(* A process that receives a message keeps its types. *)
LEMMA ReceiveTypes ==
    ASSUME TypeInv, NEW f \in FileIds, NEW m \in Message,
           Receive(f, m) \/ LoseResult
    PROVE  /\ held' \in [FileIds -> SUBSET (CallRequest \union SubscribeRequest)]
           /\ awaiting' \in [FileIds -> SUBSET
                  [call : CallIds, service : ServiceNames, inboxed : BOOLEAN]]
           /\ seen' \in [FileIds -> [SubIds -> Nat]]
<1>1. CASE LoseResult
  BY <1>1 DEF LoseResult, TypeInv, TypeOK, ProcessTypes
<1>2. CASE Receive(f, m)
  <2>1. held' \in [FileIds -> SUBSET (CallRequest \union SubscribeRequest)]
    BY <1>2, MessageKinds DEF Receive, TypeInv, TypeOK, ProcessTypes
  <2>2. awaiting' \in [FileIds -> SUBSET
                  [call : CallIds, service : ServiceNames, inboxed : BOOLEAN]]
    <3>1. \/ awaiting' = [awaiting EXCEPT ![f] = {c \in @ : c.call # m.call}]
          \/ awaiting' = [awaiting EXCEPT ![f] = {c \in @ : c.service # m.service}]
          \/ awaiting' = awaiting
      BY <1>2 DEF Receive
    <3>2. QED
      BY <3>1 DEF TypeInv, TypeOK, ProcessTypes
  <2>3. seen' \in [FileIds -> [SubIds -> Nat]]
    BY <1>2, MessageKinds DEF Receive, TypeInv, TypeOK, ProcessTypes
  <2>4. QED
    BY <2>1, <2>2, <2>3
<1>3. QED
  BY <1>1, <1>2

LEMMA PopMessageTypes ==
    ASSUME TypeInv, NEW f \in FileIds, PopMessage(f)
    PROVE  CallTypes' /\ ProcessTypes'
<1>1. inboxes[f] \in MaybeInbox(Message) /\ HasMessage(inboxes[f])
  BY DEF TypeInv, TypeOK, CallTypes, MaybeInbox, PopMessage
<1>2. Pop(inboxes[f]) \in Inbox(Message) /\ Head(inboxes[f].messages) \in Message
  BY <1>1, PopIsInbox
<1>3. CallTypes'
  BY <1>2 DEF TypeInv, TypeOK, CallTypes, PopMessage
<1>4. latch' \in [FileIds -> Nat \union {Nil}]
  BY DEF TypeInv, TypeOK, ProcessTypes, PopMessage
<1>5. Receive(f, Head(inboxes[f].messages)) \/ LoseResult
  BY DEF PopMessage
<1>6. QED
  BY <1>2, <1>3, <1>4, <1>5, ReceiveTypes DEF ProcessTypes

LEMMA WouldBlockTypes ==
    ASSUME TypeInv, NEW f \in FileIds, NEW shortage, WouldBlock(f, shortage)
    PROVE  CallTypes' /\ ProcessTypes'
<1>1. Ensure(inboxes[f]) \in Inbox(Message)
  BY EnsureIsInbox DEF TypeInv, TypeOK, CallTypes, MaybeInbox
<1>2. CallTypes'
  BY <1>1 DEF TypeInv, TypeOK, CallTypes, WouldBlock
<1>3. Ensure(inboxes[f]).generation \in Nat
  BY <1>1 DEF Inbox
<1>4. ProcessTypes'
  BY <1>3 DEF TypeInv, TypeOK, ProcessTypes, WouldBlock
<1>5. QED
  BY <1>2, <1>4

(* A flush: the requests are well-formed messages, the entries of the      *)
(* table well-formed entries.                                              *)
LEMMA FlushRequestsTypes ==
    ASSUME TypeInv, NEW f \in FileIds, NEW s \in ServicesOf(f), NEW shortage,
           FlushRequests(f, s, shortage)
    PROVE  CallTypes' /\ ProcessTypes'
<1> DEFINE queue == services[s].queue
           count == Len(queue)
           request(ts, i) ==
               [type |-> "FunctionCallRequest", service |-> s, client |-> queue[i].client,
                origin |-> queue[i].origin, call |-> queue[i].call, token |-> ts[i]]
           entry(ts, i) ==
               [token |-> ts[i], client |-> queue[i].client, service |-> f,
                call |-> queue[i].call, origin |-> queue[i].origin]
           entries(ts) == {entry(ts, i) : i \in 1 .. count}
           rest(ts) == [i \in 1 .. count - 1 |-> request(ts, i + 1)]
           Service == [file : FileIds, queue : Seq(QueuedRequest)]
<1>1. s \in ServiceNames /\ services[s] \in Service
  BY DEF TypeInv, TypeOK, CallTypes, ServicesOf
<1>2. queue \in Seq(QueuedRequest) /\ count \in Nat /\ count > 0
  BY <1>1, EmptySeq, LenProperties DEF FlushRequests
<1>3. \A i \in 1 .. count : queue[i] \in QueuedRequest
  BY <1>2, ElementOfSeq
<1>4. PICK ts \in Allocate(replyTokens, count) :
        /\ services' = [services EXCEPT ![s].queue = <<>>]
        /\ replyTokens' = Create(replyTokens, ts, entries(ts))
        /\ IF count > 1 /\ f \in shortage
           THEN UNCHANGED <<inboxes, held, awaiting, seen>>
           ELSE /\ inboxes' = IF count = 1 THEN inboxes
                              ELSE [inboxes EXCEPT ![f] = QueueAll(@, rest(ts))]
                /\ Receive(f, request(ts, 1)) \/ LoseResult
  BY DEF FlushRequests
<1>5. FreshTokens(replyTokens, count, ts)
  BY <1>2, AllocateGivesFreshTokens, Zenon
<1>6. Len(ts) = count /\ \A i \in 1 .. count : ts[i] \in Tokens
  BY <1>5 DEF FreshTokens
<1>7. \A i \in 1 .. count : request(ts, i) \in CallRequest /\ entry(ts, i) \in PendingReply
  BY <1>1, <1>3, <1>6 DEF QueuedRequest, CallRequest, PendingReply
<1>8. \A i \in 1 .. count : request(ts, i) \in Message
  BY <1>7 DEF Message
<1>9. rest(ts) \in Seq(Message)
  <2>1. count - 1 \in Nat
    BY <1>2
  <2>2. \A i \in 1 .. count - 1 : request(ts, i + 1) \in Message
    BY <1>2, <1>8
  <2>3. rest(ts) \in [1 .. count - 1 -> Message]
    BY <2>2
  <2>4. QED
    BY <2>1, <2>3, SeqDef
<1>10. services' \in [ServiceNames -> Service \union {Nil}]
  <2>1. [services[s] EXCEPT !.queue = <<>>] \in Service
    BY <1>1, EmptySeq
  <2>2. QED
    BY <1>4, <2>1 DEF TypeInv, TypeOK, CallTypes
<1>11. replyTokens' \in [next : Tokens, pending : SUBSET PendingReply]
  <2>1. Successor(ts[Len(ts)]) \in Tokens
    BY <1>2, <1>6, SuccessorIsToken
  <2>2. entries(ts) \subseteq PendingReply
    BY <1>7
  <2>3. replyTokens' = [next    |-> Successor(ts[Len(ts)]),
                        pending |-> replyTokens.pending \union entries(ts)]
    BY <1>4 DEF Create
  <2>4. QED
    BY <2>1, <2>2, <2>3 DEF TypeInv, TypeOK, CallTypes
<1>12. inboxes' \in [FileIds -> MaybeInbox(Message)]
  <2>1. inboxes \in [FileIds -> MaybeInbox(Message)]
    BY DEF TypeInv, TypeOK, CallTypes, MaybeInbox
  <2>2. QueueAll(inboxes[f], rest(ts)) \in MaybeInbox(Message)
    BY <1>9, <2>1, QueueAllIsInbox DEF MaybeInbox
  <2>3. inboxes' = inboxes \/ inboxes' = [inboxes EXCEPT ![f] = QueueAll(@, rest(ts))]
    BY <1>4
  <2>4. QED
    BY <2>1, <2>2, <2>3
<1>13. CallTypes'
  BY <1>10, <1>11, <1>12 DEF CallTypes, MaybeInbox
<1>14. latch' \in [FileIds -> Nat \union {Nil}]
  BY DEF TypeInv, TypeOK, ProcessTypes, FlushRequests
<1>15. /\ held' \in [FileIds -> SUBSET (CallRequest \union SubscribeRequest)]
       /\ awaiting' \in [FileIds -> SUBSET
              [call : CallIds, service : ServiceNames, inboxed : BOOLEAN]]
       /\ seen' \in [FileIds -> [SubIds -> Nat]]
  <2>1. CASE UNCHANGED <<held, awaiting, seen>>
    BY <2>1 DEF TypeInv, TypeOK, ProcessTypes
  <2>2. CASE Receive(f, request(ts, 1)) \/ LoseResult
    <3>1. request(ts, 1) \in Message
      BY <1>2, <1>8
    <3>2. QED
      BY <2>2, <3>1, ReceiveTypes
  <2>3. QED
    BY <1>4, <2>1, <2>2
<1>16. QED
  BY <1>13, <1>14, <1>15 DEF ProcessTypes

LEMMA InboxNextMessageTypes ==
    ASSUME TypeInv, NEW f \in FileIds, NEW shortage, InboxNextMessage(f, shortage)
    PROVE  TypeInv'
<1>1. StoreTypes' /\ FileTypes' /\ Finite'
  BY DEF TypeInv, TypeOK, StoreTypes, FileTypes, Finite, InboxNextMessage,
         storeVars, bookkeeping
<1>2. CallTypes' /\ ProcessTypes'
  BY PopMessageTypes, FlushRequestsTypes, WouldBlockTypes DEF InboxNextMessage
<1>3. StoresAreProvided'
  <2>1. UNCHANGED stores
    BY DEF InboxNextMessage, storeVars
  <2>2. \A s \in ServiceNames : services[s] \in BoundService => services'[s] \in BoundService
    <3>1. CASE UNCHANGED services
      BY <3>1
    <3>2. ASSUME NEW s \in ServicesOf(f), FlushRequests(f, s, shortage)
          PROVE  \A r \in ServiceNames :
                     services[r] \in BoundService => services'[r] \in BoundService
      <4>1. services' = [services EXCEPT ![s].queue = <<>>]
        BY <3>2 DEF FlushRequests
      <4>2. \A r \in ServiceNames :
               r = s => (services[r] \in BoundService
                        => [services[r] EXCEPT !.queue = <<>>] \in BoundService)
        BY EmptySeq DEF BoundService
      <4>3. QED
        BY <4>1, <4>2 DEF TypeInv, TypeOK, CallTypes
    <3>3. QED
      BY <3>1, <3>2 DEF InboxNextMessage, PopMessage, WouldBlock
  <2>3. \A t \in Paths : t.service \in ServiceNames
    BY DEF Paths, NamedTargets
  <2>4. QED
    BY <2>1, <2>2, <2>3 DEF TypeInv, StoresAreProvided
<1>4. QED
  BY <1>1, <1>2, <1>3 DEF TypeInv, TypeOK

-------------------------------------------------------------------------------
(* The commands on stores *)

LEMMA StoreCreateTypes ==
    ASSUME TypeInv, NEW f \in FileIds, NEW t \in Paths, NEW public \in BOOLEAN,
           StoreCreate(f, t, public)
    PROVE  TypeInv'
<1>1. CallTypes' /\ FileTypes' /\ ProcessTypes' /\ Finite'
  BY DEF TypeInv, TypeOK, CallTypes, FileTypes, ProcessTypes, Finite, StoreCreate,
         tables, bookkeeping, apps
<1>2. [value |-> nextTimestamp, public |-> public] \in NamedStore
  BY DEF TypeInv, TypeOK, StoreTypes, NamedStore
<1>3. StoreTypes'
  BY <1>2 DEF TypeInv, TypeOK, StoreTypes, StoreCreate, tables
<1>4. StoresAreProvided'
  <2>1. services[t.service] \in BoundService
    BY DEF StoreCreate, Provides, TypeInv, TypeOK, CallTypes, BoundService, Paths, NamedTargets
  <2>2. QED
    BY <2>1 DEF TypeInv, TypeOK, StoreTypes, StoresAreProvided, StoreCreate
<1>5. QED
  BY <1>1, <1>3, <1>4 DEF TypeInv, TypeOK

(* A write queues one typed message for each of finitely many subscribers, *)
(* or for those the loop reached.                                          *)
LEMMA UpdateNoticesTypes ==
    ASSUME TypeInv, NEW target \in Targets, NEW value \in Nat, NEW shortage,
           NEW notices \in Reached(UpdateNotices(target, value), shortage)
    PROVE  IsFiniteSet(notices) /\ NoticesAreTyped(notices)
<1> DEFINE S == SubscribersOf(subs, target)
           notice(s) == Notice(s.file, 0, s.id, ValueMessage("Updated", target, s.id, value))
           g == [s \in S |-> notice(s)]
           all == UpdateNotices(target, value)
<1>1. S \subseteq Subscription /\ IsFiniteSet(S)
  BY FS_Subset DEF TypeInv, TypeOK, StoreTypes, Finite, SubscribersOf
<1>2. all = {notice(s) : s \in S}
  BY DEF UpdateNotices
<1>3. IsFiniteSet(all)
  <2>1. g \in [S -> all] /\ \A n \in all : \E s \in S : g[s] = n
    BY <1>2
  <2>2. QED
    BY <1>1, <2>1, FiniteImage
<1>4. NoticesAreTyped(all)
  <2>1. \A s \in S : notice(s).message \in Message
    BY <1>1, MessageTypes DEF Notice, Subscription
  <2>2. QED
    BY <1>2, <2>1 DEF NoticesAreTyped
<1>5. notices \in SUBSET all
  BY DEF Reached
<1>6. QED
  BY <1>3, <1>4, <1>5, FS_Subset DEF NoticesAreTyped

LEMMA PathsAreTargets == Paths \subseteq Targets
BY DEF Targets

LEMMA StoreUpdateTypes ==
    ASSUME TypeInv, NEW f \in FileIds, NEW t \in Paths, NEW shortage,
           StoreUpdate(f, t, shortage)
    PROVE  TypeInv'
<1>1. FileTypes' /\ ProcessTypes' /\ Finite'
  BY DEF TypeInv, TypeOK, FileTypes, ProcessTypes, Finite, StoreUpdate,
         tables, bookkeeping, apps
<1>2. nextTimestamp \in Nat \ {0} /\ nextTimestamp' \in Nat \ {0}
  BY DEF TypeInv, TypeOK, StoreTypes, StoreUpdate
<1>3. stores' \in [Paths -> NamedStore \union {Nil}]
  BY <1>2 DEF TypeInv, TypeOK, StoreTypes, StoreUpdate, NamedStore
<1>4. StoreTypes'
  BY <1>2, <1>3 DEF TypeInv, TypeOK, StoreTypes, StoreUpdate, tables
<1>5. inboxes' \in [FileIds -> MaybeInbox(Message)]
  <2>1. inboxes \in [FileIds -> MaybeInbox(Message)]
    BY DEF TypeInv, TypeOK, CallTypes, MaybeInbox
  <2>2. CASE stores[t] = Nil
    BY <2>1, <2>2 DEF StoreUpdate
  <2>3. CASE stores[t] # Nil
    <3>1. PICK notices \in Reached(UpdateNotices(t, nextTimestamp), shortage) :
               \E mail \in Mailings(notices) : inboxes' = Post(inboxes, mail)
      BY <2>3 DEF StoreUpdate
    <3>2. t \in Targets
      BY PathsAreTargets
    <3>3. IsFiniteSet(notices) /\ NoticesAreTyped(notices)
      BY <1>2, <3>1, <3>2, UpdateNoticesTypes
    <3>4. QED
      BY <2>1, <3>1, <3>3, PostType
  <2>4. QED
    BY <2>2, <2>3
<1>6. CallTypes'
  BY <1>5 DEF TypeInv, TypeOK, CallTypes, StoreUpdate, tables, MaybeInbox
<1>7. StoresAreProvided'
  <2>1. \A u \in Paths : stores'[u] # Nil => stores[u] # Nil
    BY DEF StoreUpdate, TypeInv, TypeOK, StoreTypes
  <2>2. QED
    BY <2>1 DEF TypeInv, StoresAreProvided, StoreUpdate
<1>8. QED
  BY <1>1, <1>4, <1>6, <1>7 DEF TypeInv, TypeOK

LEMMA AnonymousStoreCreateTypes ==
    ASSUME TypeInv, NEW f \in FileIds, NEW s \in ServiceNames, AnonymousStoreCreate(f, s)
    PROVE  TypeInv'
<1>1. CallTypes' /\ FileTypes' /\ ProcessTypes' /\ Finite' /\ StoresAreProvided'
  BY DEF TypeInv, TypeOK, CallTypes, FileTypes, ProcessTypes, Finite, StoresAreProvided,
         AnonymousStoreCreate, tables, bookkeeping, apps
<1>2. /\ nextTimestamp \in Nat \ {0} /\ nextAnonymous \in Nat \ {0}
      /\ nextTimestamp' \in Nat \ {0} /\ nextAnonymous' \in Nat \ {0}
  BY DEF TypeInv, TypeOK, StoreTypes, AnonymousStoreCreate
<1>3. NewAnonymousStore(s, f, nextTimestamp) \in AnonymousStore(ServiceNames, FileIds)
  BY <1>2 DEF NewAnonymousStore, AnonymousStore
<1>4. StoreTypes'
  BY <1>2, <1>3 DEF TypeInv, TypeOK, StoreTypes, AnonymousStoreCreate, tables
<1>5. QED
  BY <1>1, <1>4 DEF TypeInv, TypeOK

LEMMA AnonymousStoreUpdateTypes ==
    ASSUME TypeInv, NEW f \in FileIds, NEW a \in AnonymousIds, NEW shortage,
           AnonymousStoreUpdate(f, a, shortage)
    PROVE  TypeInv'
<1>1. FileTypes' /\ ProcessTypes' /\ Finite' /\ StoresAreProvided'
  BY DEF TypeInv, TypeOK, FileTypes, ProcessTypes, Finite, StoresAreProvided,
         AnonymousStoreUpdate, tables, bookkeeping, apps
<1>2. nextTimestamp \in Nat \ {0} /\ nextTimestamp' \in Nat \ {0}
  BY DEF TypeInv, TypeOK, StoreTypes, AnonymousStoreUpdate
<1>3. anonymous' \in [AnonymousIds -> MaybeAStore]
  <2>1. anonymous \in [AnonymousIds -> MaybeAStore] /\ anonymous[a] \in AStore
    BY DEF TypeInv, TypeOK, StoreTypes, AnonymousStoreUpdate, MaybeAStore, AStore
  <2>2. [anonymous[a] EXCEPT !.value = nextTimestamp] \in MaybeAStore
    BY <1>2, <2>1 DEF AStore, AnonymousStore, MaybeAStore
  <2>3. QED
    BY <2>1, <2>2 DEF AnonymousStoreUpdate
<1>4. StoreTypes'
  BY <1>2, <1>3 DEF TypeInv, TypeOK, StoreTypes, AnonymousStoreUpdate, tables,
                    MaybeAStore, AStore
<1>5. inboxes' \in [FileIds -> MaybeInbox(Message)]
  <2>1. inboxes \in [FileIds -> MaybeInbox(Message)]
    BY DEF TypeInv, TypeOK, CallTypes, MaybeInbox
  <2>2. PICK notices \in Reached(UpdateNotices(Anonymous(a), nextTimestamp), shortage) :
               \E mail \in Mailings(notices) : inboxes' = Post(inboxes, mail)
    BY DEF AnonymousStoreUpdate
  <2>3. IsFiniteSet(notices) /\ NoticesAreTyped(notices)
    BY <1>2, <2>2, AnonymousIsTarget, UpdateNoticesTypes
  <2>4. QED
    BY <2>1, <2>2, <2>3, PostType
<1>6. CallTypes'
  BY <1>5 DEF TypeInv, TypeOK, CallTypes, AnonymousStoreUpdate, tables, MaybeInbox
<1>7. QED
  BY <1>1, <1>4, <1>6 DEF TypeInv, TypeOK

LEMMA NewSubscribeTypes ==
    ASSUME FileTypes, NEW f \in FileIds, NEW id, NewSubscribe(f, id),
           UNCHANGED <<open, origin, lastCall>>
    PROVE  FileTypes'
BY DEF FileTypes, NewSubscribe

LEMMA SubscribePublicTypes ==
    ASSUME TypeInv, NEW f \in FileIds, NEW t \in Paths, NEW id \in SubIds, NEW shortage,
           SubscribePublic(f, t, id, shortage)
    PROVE  TypeInv'
<1>1. ProcessTypes' /\ StoresAreProvided'
  BY DEF TypeInv, TypeOK, ProcessTypes, StoresAreProvided, SubscribePublic, storeVars, apps
<1>2. FileTypes'
  BY NewSubscribeTypes DEF TypeInv, TypeOK, SubscribePublic
<1>3. [file |-> f, id |-> id, target |-> t] \in Subscription
  BY PathsAreTargets DEF Subscription
<1>4. StoreTypes'
  BY <1>3 DEF TypeInv, TypeOK, StoreTypes, SubscribePublic, tables, storeVars
<1>5. Finite'
  BY FS_AddElement DEF TypeInv, Finite, SubscribePublic, tables
<1>6. CallTypes'
  <2>1. stores[t] \in NamedStore
    BY DEF TypeInv, TypeOK, StoreTypes, SubscribePublic
  <2>2. ValueMessage("Accepted", t, id, stores[t].value) \in Message
    BY <2>1, MessageTypes, PathsAreTargets DEF NamedStore
  <2>3. inboxes \in [FileIds -> MaybeInbox(Message)]
    BY DEF TypeInv, TypeOK, CallTypes, MaybeInbox
  <2>4. inboxes' \in [FileIds -> MaybeInbox(Message)]
    BY <2>2, <2>3, SendType DEF SubscribePublic
  <2>5. QED
    BY <2>4 DEF TypeInv, TypeOK, CallTypes, SubscribePublic, tables, MaybeInbox
<1>7. QED
  BY <1>1, <1>2, <1>4, <1>5, <1>6 DEF TypeInv, TypeOK

(* A request to a provider: the entry, the message and the table. *)
LEMMA AskTypes ==
    ASSUME TypeInv, NEW f \in FileIds, NEW id \in SubIds, NEW target \in Targets,
           NEW service \in FileIds, NEW shortage,
           Ask(f, id, target, service, shortage)
    PROVE  /\ inboxes' \in [FileIds -> MaybeInbox(Message)]
           /\ subTokens' \in [next : Tokens, pending : SUBSET PendingSubscription]
           /\ IsFiniteSet(subTokens'.pending)
<1> DEFINE entry(ts) == [token |-> ts[1], client |-> f, service |-> service,
                         id |-> id, target |-> target]
           created(ts) == Create(subTokens, ts, {entry(ts)})
           Table == [next : Tokens, pending : SUBSET PendingSubscription]
<1>1. PICK ts \in Allocate(subTokens, 1) :
         /\ inboxes' = Send(inboxes, service, SubscribeRequestOf(entry(ts)), shortage)
         /\ subTokens' = IF IsAnonymous(target) /\ service \in shortage
                         THEN Discard(created(ts), {entry(ts)}) ELSE created(ts)
  BY DEF Ask
<1>2. FreshTokens(subTokens, 1, ts)
  BY AllocateGivesFreshTokens
<1>3. ts[1] \in Tokens /\ Len(ts) = 1
  BY <1>2 DEF FreshTokens
<1>4. entry(ts) \in PendingSubscription
  BY <1>3 DEF PendingSubscription
<1>5. created(ts) = [next    |-> Successor(ts[1]),
                     pending |-> subTokens.pending \union {entry(ts)}]
  BY <1>3 DEF Create
<1> HIDE DEF entry, created
<1>6. created(ts) \in Table
  <2>1. Successor(ts[1]) \in Tokens
    BY <1>3, SuccessorIsToken
  <2>2. subTokens.pending \union {entry(ts)} \subseteq PendingSubscription
    BY <1>4 DEF TypeInv, TypeOK, StoreTypes
  <2>3. QED
    BY <1>5, <2>1, <2>2
<1>7. IsFiniteSet(created(ts).pending)
  <2>1. IsFiniteSet(subTokens.pending \union {entry(ts)})
    BY FS_AddElement DEF TypeInv, Finite
  <2>2. QED
    BY <1>5, <2>1
<1>8. subTokens' \in Table /\ IsFiniteSet(subTokens'.pending)
  <2>1. /\ Discard(created(ts), {entry(ts)}) \in Table
        /\ IsFiniteSet(Discard(created(ts), {entry(ts)}).pending)
    BY <1>6, <1>7, DiscardTypes
  <2>2. subTokens' = created(ts) \/ subTokens' = Discard(created(ts), {entry(ts)})
    BY <1>1
  <2>3. QED
    BY <1>6, <1>7, <2>1, <2>2
<1>9. inboxes' \in [FileIds -> MaybeInbox(Message)]
  <2>1. SubscribeRequestOf(entry(ts)) \in Message
    BY <1>4, MessageTypes
  <2>2. inboxes \in [FileIds -> MaybeInbox(Message)]
    BY DEF TypeInv, TypeOK, CallTypes, MaybeInbox
  <2>3. QED
    BY <1>1, <2>1, <2>2, SendType
<1>10. QED
  BY <1>8, <1>9

LEMMA SubscribePrivateTypes ==
    ASSUME TypeInv, NEW f \in FileIds, NEW t \in Paths, NEW id \in SubIds, NEW shortage,
           SubscribePrivate(f, t, id, shortage)
    PROVE  TypeInv'
<1>1. ProcessTypes' /\ StoresAreProvided'
  BY DEF TypeInv, TypeOK, ProcessTypes, StoresAreProvided, SubscribePrivate, storeVars, apps
<1>2. FileTypes'
  BY NewSubscribeTypes DEF TypeInv, TypeOK, SubscribePrivate
<1>3. services[t.service].file \in FileIds
  BY DEF TypeInv, StoresAreProvided, BoundService, SubscribePrivate
<1>4. /\ inboxes' \in [FileIds -> MaybeInbox(Message)]
      /\ subTokens' \in [next : Tokens, pending : SUBSET PendingSubscription]
      /\ IsFiniteSet(subTokens'.pending)
  BY <1>3, AskTypes, PathsAreTargets DEF SubscribePrivate
<1>5. CallTypes' /\ StoreTypes' /\ Finite'
  BY <1>4 DEF TypeInv, TypeOK, CallTypes, StoreTypes, Finite, SubscribePrivate,
              storeVars, MaybeInbox
<1>6. QED
  BY <1>1, <1>2, <1>5 DEF TypeInv, TypeOK

LEMMA AnonymousStoreSubscribeTypes ==
    ASSUME TypeInv, NEW f \in FileIds, NEW a \in AnonymousIds, NEW id \in SubIds, NEW shortage,
           AnonymousStoreSubscribe(f, a, id, shortage)
    PROVE  TypeInv'
<1>1. ProcessTypes' /\ StoresAreProvided'
  BY DEF TypeInv, TypeOK, ProcessTypes, StoresAreProvided, AnonymousStoreSubscribe, apps
<1>2. FileTypes'
  BY NewSubscribeTypes DEF TypeInv, TypeOK, AnonymousStoreSubscribe
<1>3. anonymous \in [AnonymousIds -> MaybeAStore] /\ anonymous[a] \in AStore
  BY DEF TypeInv, TypeOK, StoreTypes, MaybeAStore, AStore, AnonymousStoreSubscribe
<1>4. anonymous[a].owner \in FileIds
  BY <1>3 DEF AStore, AnonymousStore
<1>5. /\ inboxes' \in [FileIds -> MaybeInbox(Message)]
      /\ subTokens' \in [next : Tokens, pending : SUBSET PendingSubscription]
      /\ IsFiniteSet(subTokens'.pending)
  BY <1>4, AskTypes, AnonymousIsTarget DEF AnonymousStoreSubscribe
<1>6. anonymous' \in [AnonymousIds -> MaybeAStore]
  <2>1. IncrementPending(anonymous[a]) \in MaybeAStore
    BY <1>3, CountingTypes DEF MaybeAStore
  <2>2. Decrement(IncrementPending(anonymous[a]), 1, 0) \in MaybeAStore
    BY <2>1, DecrementType
  <2>3. QED
    BY <1>3, <2>1, <2>2 DEF AnonymousStoreSubscribe
<1>7. CallTypes' /\ StoreTypes' /\ Finite'
  BY <1>5, <1>6 DEF TypeInv, TypeOK, CallTypes, StoreTypes, Finite, AnonymousStoreSubscribe,
                    MaybeInbox, MaybeAStore, AStore
<1>8. QED
  BY <1>1, <1>2, <1>7 DEF TypeInv, TypeOK

(* The three verdicts: what they do to subscriptions, inboxes and stores.  *)
VerdictTypes ==
    /\ subs' \subseteq Subscription /\ IsFiniteSet(subs')
    /\ inboxes' \in [FileIds -> MaybeInbox(Message)]
    /\ anonymous' \in [AnonymousIds -> MaybeAStore]

LEMMA AcceptNamedTypes ==
    ASSUME TypeInv, NEW p \in PendingSubscription, ~IsAnonymous(p.target), NEW shortage,
           AcceptNamed(p, shortage)
    PROVE  VerdictTypes
<1> USE DEF TypeInv, TypeOK
<1>1. anonymous' \in [AnonymousIds -> MaybeAStore]
  BY DEF AcceptNamed, StoreTypes, MaybeAStore, AStore
<1>2. inboxes \in [FileIds -> MaybeInbox(Message)]
  BY DEF CallTypes, MaybeInbox
<1>3. CASE UNCHANGED <<subs, inboxes>>
  BY <1>1, <1>2, <1>3 DEF StoreTypes, Finite, VerdictTypes
<1> DEFINE new == [file |-> p.client, id |-> p.id, target |-> p.target]
           m == ValueMessage("Accepted", p.target, p.id, stores[p.target].value)
<1>4. CASE /\ stores[p.target] # Nil
           /\ subs' = subs \union {new}
           /\ inboxes' = Send(inboxes, p.client, m, shortage)
  <2>1. p.client \in FileIds /\ p.id \in SubIds /\ p.target \in Targets
    BY DEF PendingSubscription
  <2>2. p.target \in Paths
    BY <2>1, TargetTypes
  <2>3. stores[p.target].value \in Nat
    BY <1>4, <2>2 DEF StoreTypes, NamedStore
  <2>4. m \in Message
    BY <2>1, <2>3, MessageTypes
  <2>5. new \in Subscription
    BY <2>1 DEF Subscription
  <2>6. inboxes' \in [FileIds -> MaybeInbox(Message)]
    BY <1>2, <1>4, <2>1, <2>4, SendType
  <2>7. subs' \subseteq Subscription /\ IsFiniteSet(subs')
    BY <1>4, <2>5, FS_AddElement DEF StoreTypes, Finite
  <2>8. QED
    BY <1>1, <2>6, <2>7 DEF VerdictTypes
<1>5. QED
  BY <1>3, <1>4 DEF AcceptNamed

LEMMA AcceptAnonymousTypes ==
    ASSUME TypeInv, NEW p \in PendingSubscription, IsAnonymous(p.target), NEW shortage,
           AcceptAnonymous(p, shortage)
    PROVE  VerdictTypes
<1> USE DEF TypeInv, TypeOK
<1> DEFINE a == p.target.anonymous
           new == [file |-> p.client, id |-> p.id, target |-> p.target]
           m == ValueMessage("Accepted", p.target, p.id, anonymous[a].value)
<1>1. p.client \in FileIds /\ p.id \in SubIds /\ p.target \in Targets
  BY DEF PendingSubscription
<1>2. a \in AnonymousIds
  BY <1>1, TargetTypes
<1>3. /\ anonymous \in [AnonymousIds -> MaybeAStore]
      /\ inboxes \in [FileIds -> MaybeInbox(Message)]
      /\ subs \subseteq Subscription /\ IsFiniteSet(subs)
  BY DEF CallTypes, StoreTypes, Finite, MaybeInbox, MaybeAStore, AStore
<1>4. CASE UNCHANGED <<subs, inboxes, anonymous>>
  BY <1>3, <1>4 DEF VerdictTypes
<1>5. ASSUME anonymous[a] # Nil
      PROVE  anonymous[a] \in AStore /\ AcceptPending(anonymous[a]) \in AStore
  BY <1>2, <1>3, <1>5, CountingTypes DEF MaybeAStore
<1>6. CASE /\ anonymous[a] # Nil
           /\ anonymous' = [anonymous EXCEPT ![a] = Decrement(AcceptPending(@), 0, 1)]
           /\ UNCHANGED <<subs, inboxes>>
  <2>1. Decrement(AcceptPending(anonymous[a]), 0, 1) \in MaybeAStore
    BY <1>5, <1>6, DecrementType DEF MaybeAStore
  <2>2. QED
    BY <1>3, <1>6, <2>1 DEF VerdictTypes
<1>7. CASE /\ anonymous[a] # Nil
           /\ anonymous' = [anonymous EXCEPT ![a] = AcceptPending(@)]
           /\ subs' = subs \union {new}
           /\ inboxes' = Send(inboxes, p.client, m, shortage)
  <2>1. anonymous' \in [AnonymousIds -> MaybeAStore]
    BY <1>3, <1>5, <1>7 DEF MaybeAStore
  <2>2. anonymous[a].value \in Nat
    BY <1>5, <1>7 DEF AStore, AnonymousStore
  <2>3. m \in Message
    BY <1>1, <2>2, MessageTypes
  <2>4. inboxes' \in [FileIds -> MaybeInbox(Message)]
    BY <1>1, <1>3, <1>7, <2>3, SendType
  <2>5. new \in Subscription
    BY <1>1 DEF Subscription
  <2>6. IsFiniteSet(subs')
    BY <1>3, <1>7, FS_AddElement
  <2>7. QED
    BY <1>3, <1>7, <2>1, <2>4, <2>5, <2>6 DEF VerdictTypes
<1>8. QED
  BY <1>4, <1>6, <1>7 DEF AcceptAnonymous

LEMMA RejectTypes ==
    ASSUME TypeInv, NEW p \in PendingSubscription, NEW shortage, Reject(p, shortage)
    PROVE  VerdictTypes
<1> USE DEF TypeInv, TypeOK
<1>1. p.client \in FileIds /\ p.id \in SubIds /\ p.target \in Targets
  BY DEF PendingSubscription
<1>2. /\ anonymous \in [AnonymousIds -> MaybeAStore]
      /\ inboxes \in [FileIds -> MaybeInbox(Message)]
      /\ subs \subseteq Subscription /\ IsFiniteSet(subs)
  BY DEF CallTypes, StoreTypes, Finite, MaybeInbox, MaybeAStore, AStore
<1>3. EndMessage("Rejected", p.target, p.id) \in Message
  BY <1>1, MessageTypes
<1>4. inboxes' \in [FileIds -> MaybeInbox(Message)]
  BY <1>1, <1>2, <1>3, SendType DEF Reject
<1>5. anonymous' \in [AnonymousIds -> MaybeAStore]
  <2>1. CASE IsAnonymous(p.target)
    <3>1. p.target.anonymous \in AnonymousIds
      BY <1>1, <2>1, TargetTypes
    <3>2. Decrement(anonymous[p.target.anonymous], 1, 0) \in MaybeAStore
      BY <1>2, <3>1, DecrementType
    <3>3. QED
      BY <1>2, <2>1, <3>2 DEF Reject
  <2>2. CASE ~IsAnonymous(p.target)
    BY <1>2, <2>2 DEF Reject
  <2>3. QED
    BY <2>1, <2>2
<1>6. QED
  BY <1>2, <1>4, <1>5 DEF VerdictTypes, Reject

LEMMA StoreSubscriptionReplyTypes ==
    ASSUME TypeInv, NEW f \in FileIds, NEW m, NEW accepted \in BOOLEAN, NEW shortage,
           StoreSubscriptionReply(f, m, accepted, shortage)
    PROVE  TypeInv'
<1> DEFINE consumed == Consumable(subTokens, m.token, f)
           Table == [next : Tokens, pending : SUBSET PendingSubscription]
<1>1. FileTypes' /\ ProcessTypes' /\ StoresAreProvided'
  BY DEF TypeInv, TypeOK, FileTypes, ProcessTypes, StoresAreProvided,
         StoreSubscriptionReply, bookkeeping
<1>2. subTokens' \in Table /\ IsFiniteSet(subTokens'.pending)
  <2>1. subTokens' = subTokens \/ subTokens' = Discard(subTokens, consumed)
    BY DEF StoreSubscriptionReply
  <2>2. subTokens \in Table /\ IsFiniteSet(subTokens.pending)
    BY DEF TypeInv, TypeOK, StoreTypes, Finite
  <2>3. QED
    BY <2>1, <2>2, DiscardTypes
<1>3. VerdictTypes
  <2>1. ASSUME UNCHANGED <<subs, inboxes, anonymous>>
        PROVE  VerdictTypes
    BY <2>1 DEF TypeInv, TypeOK, CallTypes, StoreTypes, Finite, VerdictTypes, MaybeInbox,
                MaybeAStore, AStore
  <2>2. ASSUME NEW p \in consumed,
               \/ accepted /\ ~IsAnonymous(p.target) /\ AcceptNamed(p, shortage)
               \/ accepted /\ IsAnonymous(p.target) /\ AcceptAnonymous(p, shortage)
               \/ ~accepted /\ Reject(p, shortage)
        PROVE  VerdictTypes
    <3>1. p \in PendingSubscription
      BY DEF Consumable, TypeInv, TypeOK, StoreTypes
    <3>2. QED
      BY <2>2, <3>1, AcceptNamedTypes, AcceptAnonymousTypes, RejectTypes
  <2>3. QED
    BY <2>1, <2>2 DEF StoreSubscriptionReply
<1>4. CallTypes' /\ StoreTypes' /\ Finite'
  BY <1>2, <1>3 DEF TypeInv, TypeOK, CallTypes, StoreTypes, Finite, VerdictTypes,
                    StoreSubscriptionReply, MaybeInbox, MaybeAStore, AStore
<1>5. QED
  BY <1>1, <1>4 DEF TypeInv, TypeOK

LEMMA StoreUnsubscribeTypes ==
    ASSUME TypeInv, NEW f \in FileIds, NEW id \in SubIds, NEW shortage,
           StoreUnsubscribe(f, id, shortage)
    PROVE  TypeInv'
<1>1. FileTypes' /\ ProcessTypes' /\ StoresAreProvided'
  BY DEF TypeInv, TypeOK, FileTypes, ProcessTypes, StoresAreProvided,
         StoreUnsubscribe, bookkeeping, apps
<1>2. PICK s \in OwnSubscription(subs, f, id) :
         /\ subs' = subs \ {s}
         /\ IF IsAnonymous(s.target) /\ anonymous[s.target.anonymous] # Nil
            THEN /\ inboxes' = Send(inboxes, anonymous[s.target.anonymous].owner,
                                    EndMessage("Closed", s.target, id), shortage)
                 /\ anonymous' = [anonymous EXCEPT ![s.target.anonymous] = Decrement(@, 0, 1)]
            ELSE UNCHANGED <<inboxes, anonymous>>
  BY DEF StoreUnsubscribe
<1>3. s \in Subscription
  BY DEF OwnSubscription, TypeInv, TypeOK, StoreTypes
<1>4. /\ anonymous \in [AnonymousIds -> MaybeAStore]
      /\ inboxes \in [FileIds -> MaybeInbox(Message)]
      /\ subs \subseteq Subscription /\ IsFiniteSet(subs)
  BY DEF TypeInv, TypeOK, CallTypes, StoreTypes, Finite, MaybeInbox, MaybeAStore, AStore
<1>5. inboxes' \in [FileIds -> MaybeInbox(Message)] /\ anonymous' \in [AnonymousIds -> MaybeAStore]
  <2> DEFINE a == s.target.anonymous
  <2>1. ASSUME IsAnonymous(s.target), anonymous[a] # Nil,
               inboxes' = Send(inboxes, anonymous[a].owner,
                               EndMessage("Closed", s.target, id), shortage),
               anonymous' = [anonymous EXCEPT ![a] = Decrement(@, 0, 1)]
        PROVE  /\ inboxes' \in [FileIds -> MaybeInbox(Message)]
               /\ anonymous' \in [AnonymousIds -> MaybeAStore]
    <3>1. s.target \in Targets
      BY <1>3 DEF Subscription
    <3>2. a \in AnonymousIds
      BY <2>1, <3>1, TargetTypes
    <3>3. anonymous[a] \in AStore
      BY <1>4, <2>1, <3>2 DEF MaybeAStore
    <3>4. anonymous[a].owner \in FileIds
      BY <3>3 DEF AStore, AnonymousStore
    <3>5. EndMessage("Closed", s.target, id) \in Message
      BY <3>1, MessageTypes
    <3>6. Decrement(anonymous[a], 0, 1) \in MaybeAStore
      BY <3>3, DecrementType DEF MaybeAStore
    <3>7. inboxes' \in [FileIds -> MaybeInbox(Message)]
      BY <1>4, <2>1, <3>4, <3>5, SendType
    <3>8. anonymous' \in [AnonymousIds -> MaybeAStore]
      BY <1>4, <2>1, <3>6
    <3>9. QED
      BY <3>7, <3>8
  <2>2. QED
    BY <1>2, <1>4, <2>1
<1>6. subs' \subseteq Subscription /\ IsFiniteSet(subs')
  BY <1>2, <1>4, FS_Difference
<1>7. CallTypes' /\ StoreTypes' /\ Finite'
  BY <1>5, <1>6 DEF TypeInv, TypeOK, CallTypes, StoreTypes, Finite,
                    StoreUnsubscribe, tables, MaybeInbox, MaybeAStore, AStore
<1>8. QED
  BY <1>1, <1>7 DEF TypeInv, TypeOK

-------------------------------------------------------------------------------
(* Clean-up.  Each of its four kinds of notices is a finite set of typed   *)
(* notices: one for an entry of a finite table, or for a pair of a file    *)
(* and a service.                                                          *)

GoodNotices(notices) == IsFiniteSet(notices) /\ NoticesAreTyped(notices)

LEMMA GoodImage ==
    ASSUME NEW S, IsFiniteSet(S), NEW T, NEW g \in [S -> T],
           \A n \in T : \E x \in S : g[x] = n,
           \A x \in S : g[x].message \in Message
    PROVE  GoodNotices(T)
<1>1. IsFiniteSet(T)
  BY FiniteImage
<1>2. \A n \in T : n.message \in Message
  OBVIOUS
<1>3. QED
  BY <1>1, <1>2 DEF GoodNotices, NoticesAreTyped

LEMMA PendingNoticesTypes ==
    ASSUME TypeInv, NEW f \in FileIds
    PROVE  GoodNotices(PendingNotices(f))
<1> DEFINE S == {e \in EntriesOf(subTokens, f) :
                   IsAnonymous(e.target) /\ ~(e.client = f /\ e.service = f)}
           notice(p) == Notice(IF p.client = f THEN p.service ELSE p.client, 1, p.token,
                               EndMessage("Closed", p.target, p.id))
           T == PendingNotices(f)
           g == [p \in S |-> notice(p)]
<1>1. S \subseteq PendingSubscription /\ IsFiniteSet(S)
  <2>1. S \in SUBSET subTokens.pending
    BY DEF EntriesOf
  <2>2. QED
    BY <2>1, FS_Subset DEF TypeInv, TypeOK, StoreTypes, Finite
<1>2. T = {notice(p) : p \in S}
  BY DEF PendingNotices
<1>3. g \in [S -> T] /\ \A n \in T : \E p \in S : g[p] = n
  BY <1>2
<1>4. \A p \in S : g[p].message \in Message
  BY <1>1, MessageTypes DEF Notice, PendingSubscription
<1> HIDE DEF S, T, g
<1>5. GoodNotices(T)
  BY <1>1, <1>3, <1>4, GoodImage
<1>6. QED
  BY <1>5 DEF T

LEMMA OwnerNoticesTypes ==
    ASSUME TypeInv, NEW f \in FileIds
    PROVE  GoodNotices(OwnerNotices(f))
<1> DEFINE S == {e \in OwnSubscriptions(f) :
                   /\ IsAnonymous(e.target)
                   /\ anonymous[e.target.anonymous] # Nil
                   /\ anonymous[e.target.anonymous].owner # f}
           notice(s) == Notice(anonymous[s.target.anonymous].owner, 2, s.id,
                               EndMessage("Closed", s.target, s.id))
           T == OwnerNotices(f)
           g == [s \in S |-> notice(s)]
<1>1. S \subseteq Subscription /\ IsFiniteSet(S)
  <2>1. S \in SUBSET subs
    BY DEF OwnSubscriptions
  <2>2. QED
    BY <2>1, FS_Subset DEF TypeInv, TypeOK, StoreTypes, Finite
<1>2. T = {notice(s) : s \in S}
  BY DEF OwnerNotices
<1>3. g \in [S -> T] /\ \A n \in T : \E s \in S : g[s] = n
  BY <1>2
<1>4. \A s \in S : g[s].message \in Message
  BY <1>1, MessageTypes DEF Notice, Subscription
<1> HIDE DEF S, T, g
<1>5. GoodNotices(T)
  BY <1>1, <1>3, <1>4, GoodImage
<1>6. QED
  BY <1>5 DEF T

LEMMA ExitNoticesTypes ==
    ASSUME TypeInv, NEW f \in FileIds, NEW rank
    PROVE  GoodNotices(ExitNotices(f, rank))
<1> DEFINE S == OrphanedSubscriptions(f)
           notice(s) ==
               Notice(s.file,
                      3 * rank[ServiceOf(s.target)] + (IF IsAnonymous(s.target) THEN 1 ELSE 0),
                      s.id, EndMessage("Closed", s.target, s.id))
           T == ExitNotices(f, rank)
           g == [s \in S |-> notice(s)]
<1>1. S \subseteq Subscription /\ IsFiniteSet(S)
  <2>1. S \in SUBSET subs
    BY DEF OrphanedSubscriptions
  <2>2. QED
    BY <2>1, FS_Subset DEF TypeInv, TypeOK, StoreTypes, Finite
<1>2. T = {notice(s) : s \in S}
  BY DEF ExitNotices
<1>3. g \in [S -> T] /\ \A n \in T : \E s \in S : g[s] = n
  BY <1>2
<1>4. \A s \in S : g[s].message \in Message
  BY <1>1, MessageTypes DEF Notice, Subscription
<1> HIDE DEF S, T, g
<1>5. GoodNotices(T)
  BY <1>1, <1>3, <1>4, GoodImage
<1>6. QED
  BY <1>5 DEF T

LEMMA ServiceClosedNoticesTypes ==
    ASSUME NEW f \in FileIds, NEW rank, NEW earlier
    PROVE  GoodNotices(ServiceClosedNotices(f, rank, earlier))
<1> DEFINE S == {y \in (FileIds \ {f}) \X ServicesOf(f) :
                   \/ inboxes[y[1]] # Nil
                   \/ \E n \in earlier : n.to = y[1] /\ n.phase < 3 * rank[y[2]] + 2}
           notice(x) == Notice(x[1], 3 * rank[x[2]] + 2, 0,
                               [type |-> "ServiceClosed", service |-> x[2]])
           T == ServiceClosedNotices(f, rank, earlier)
           g == [x \in S |-> notice(x)]
<1>1. IsFiniteSet(S)
  <2>1. IsFiniteSet(FileIds \ {f})
    BY FS_Difference, MotherboardAssumption
  <2>2. IsFiniteSet(ServicesOf(f))
    BY FS_Subset, MotherboardAssumption DEF ServicesOf
  <2>3. IsFiniteSet((FileIds \ {f}) \X ServicesOf(f))
    BY <2>1, <2>2, FS_Product
  <2>4. S \in SUBSET ((FileIds \ {f}) \X ServicesOf(f))
    OBVIOUS
  <2>5. QED
    BY <2>3, <2>4, FS_Subset
<1>2. T = {notice(x) : x \in S}
  BY DEF ServiceClosedNotices
<1>3. g \in [S -> T] /\ \A n \in T : \E x \in S : g[x] = n
  BY <1>2
<1>4. \A x \in S : g[x].message \in Message
  <2>1. \A x \in S : x[2] \in ServiceNames
    BY DEF ServicesOf
  <2>2. QED
    BY <2>1, MessageTypes DEF Notice
<1> HIDE DEF S, T, g
<1>5. GoodNotices(T)
  BY <1>1, <1>3, <1>4, GoodImage
<1>6. QED
  BY <1>5 DEF T

LEMMA GoodUnion ==
    ASSUME NEW A, NEW B, GoodNotices(A), GoodNotices(B)
    PROVE  GoodNotices(A \union B)
BY FS_Union DEF GoodNotices, NoticesAreTyped

LEMMA GoodSubset ==
    ASSUME NEW A, GoodNotices(A), NEW B \in SUBSET A
    PROVE  GoodNotices(B)
BY FS_Subset DEF GoodNotices, NoticesAreTyped

LEMMA AnonymousAfterCloseTypes ==
    ASSUME TypeInv, NEW f \in FileIds
    PROVE  AnonymousAfterClose(f) \in [AnonymousIds -> MaybeAStore]
<1> DEFINE requests(a) == {p \in EntriesOf(subTokens, f) : p.target = Anonymous(a)}
           followers(a) == {s \in OwnSubscriptions(f) : s.target = Anonymous(a)}
<1> SUFFICES ASSUME NEW a \in AnonymousIds
             PROVE  (IF Gone(f, a) THEN Nil
                     ELSE Decrement(anonymous[a], Cardinality(requests(a)),
                                    Cardinality(followers(a)))) \in MaybeAStore
  BY DEF AnonymousAfterClose
<1>1. anonymous[a] \in MaybeAStore
  BY DEF TypeInv, TypeOK, StoreTypes, MaybeAStore, AStore
<1>2. Cardinality(requests(a)) \in Nat
  <2>1. requests(a) \in SUBSET subTokens.pending
    BY DEF EntriesOf
  <2>2. QED
    BY <2>1, FS_Subset, FS_CardinalityType DEF TypeInv, Finite
<1>3. Cardinality(followers(a)) \in Nat
  <2>1. followers(a) \in SUBSET subs
    BY DEF OwnSubscriptions
  <2>2. QED
    BY <2>1, FS_Subset, FS_CardinalityType DEF TypeInv, Finite
<1> HIDE DEF requests, followers
<1>4. Decrement(anonymous[a], Cardinality(requests(a)), Cardinality(followers(a))) \in MaybeAStore
  BY <1>1, <1>2, <1>3, DecrementType
<1>5. QED
  BY <1>4 DEF MaybeAStore

LEMMA CloseTypes ==
    ASSUME TypeInv, NEW f \in FileIds, NEW shortage, Close(f, shortage)
    PROVE  TypeInv'
<1> DEFINE told(rank) ==
               {n \in PendingNotices(f) \union OwnerNotices(f) \union ExitNotices(f, rank) :
                    n.to \notin shortage}
           all(rank) == told(rank) \union ServiceClosedNotices(f, rank, told(rank))
<1>1. inboxes' \in [FileIds -> MaybeInbox(Message)]
  <2>1. PICK rank \in Ranks(f) : \E mail \in Mailings(all(rank)) :
               inboxes' = Post([inboxes EXCEPT ![f] = Nil], mail)
    BY DEF Close
  <2>2. GoodNotices(told(rank))
    <3>1. GoodNotices(PendingNotices(f) \union OwnerNotices(f) \union ExitNotices(f, rank))
      BY PendingNoticesTypes, OwnerNoticesTypes, ExitNoticesTypes, GoodUnion
    <3>2. QED
      BY <3>1, GoodSubset
  <2>3. GoodNotices(all(rank))
    <3> HIDE DEF told
    <3>1. GoodNotices(ServiceClosedNotices(f, rank, told(rank)))
      BY ServiceClosedNoticesTypes
    <3>2. QED
      BY <2>2, <3>1, GoodUnion
  <2>4. [inboxes EXCEPT ![f] = Nil] \in [FileIds -> MaybeInbox(Message)]
    BY DEF TypeInv, TypeOK, CallTypes, MaybeInbox
  <2> HIDE DEF all
  <2>5. QED
    BY <2>1, <2>3, <2>4, PostType DEF GoodNotices
<1>2. services' \in [ServiceNames -> BoundService \union {Nil}]
  BY DEF TypeInv, TypeOK, CallTypes, Close, BoundService
<1>3. replyTokens' \in [next : Tokens, pending : SUBSET PendingReply]
  BY DiscardTypes DEF TypeInv, TypeOK, CallTypes, Close
<1>4. CallTypes'
  BY <1>1, <1>2, <1>3 DEF CallTypes, MaybeInbox, BoundService
<1>5. /\ subTokens' \in [next : Tokens, pending : SUBSET PendingSubscription]
      /\ IsFiniteSet(subTokens'.pending)
  <2>1. /\ subTokens \in [next : Tokens, pending : SUBSET PendingSubscription]
        /\ IsFiniteSet(subTokens.pending)
    BY DEF TypeInv, TypeOK, StoreTypes, Finite
  <2>2. subTokens' = Discard(subTokens, EntriesOf(subTokens, f))
    BY DEF Close
  <2>3. QED
    BY <2>1, <2>2, DiscardTypes
<1>6. subs' \subseteq Subscription /\ IsFiniteSet(subs')
  BY FS_Difference DEF TypeInv, TypeOK, StoreTypes, Finite, Close
<1>7. stores' \in [Paths -> NamedStore \union {Nil}]
  BY DEF TypeInv, TypeOK, StoreTypes, Close
<1>8. anonymous' \in [AnonymousIds -> MaybeAStore]
  BY AnonymousAfterCloseTypes DEF Close
<1>9. StoreTypes' /\ Finite'
  BY <1>5, <1>6, <1>7, <1>8 DEF TypeInv, TypeOK, StoreTypes, Finite, Close, MaybeAStore, AStore
<1>10. FileTypes' /\ ProcessTypes'
  BY DEF TypeInv, TypeOK, FileTypes, ProcessTypes, Close
<1>11. StoresAreProvided'
  <2>1. \A t \in Paths : t.service \in ServiceNames
    BY DEF Paths, NamedTargets
  <2>2. QED
    BY <2>1 DEF TypeInv, StoresAreProvided, Close
<1>12. QED
  BY <1>4, <1>9, <1>10, <1>11 DEF TypeInv, TypeOK

-------------------------------------------------------------------------------
LEMMA NextTypes == TypeInv /\ [Next]_vars => TypeInv'
<1> SUFFICES ASSUME TypeInv, [Next]_vars
             PROVE  TypeInv'
  OBVIOUS
<1>1. CASE UNCHANGED vars
  BY <1>1, StutterTypes
<1>2. ASSUME NEW f \in FileIds, Answer(f)
      PROVE  TypeInv'
  <2>1. {FALSE, BadReplyFds} \subseteq BOOLEAN
    BY MotherboardAssumption
  <2>2. QED
    BY <1>2, FunctionCallReplyTypes, StoreSubscriptionReplyTypes DEF Answer
<1>3. ASSUME NEW f \in FileIds, Write(f)
      PROVE  TypeInv'
  <2>1. Visibilities \subseteq BOOLEAN
    BY MotherboardAssumption
  <2>2. QED
    BY <1>3, <2>1, StoreCreateTypes, StoreUpdateTypes, AnonymousStoreCreateTypes,
       AnonymousStoreUpdateTypes DEF Write
<1>4. ASSUME NEW f \in FileIds, Subscribe(f)
      PROVE  TypeInv'
  BY <1>4, SubscribePublicTypes, SubscribePrivateTypes, AnonymousStoreSubscribeTypes,
     StoreUnsubscribeTypes DEF Subscribe
<1>5. QED
  BY <1>1, <1>2, <1>3, <1>4, OpenTypes, BindServiceTypes, FunctionCallTypes,
     InboxNextMessageTypes, CloseTypes DEF Next

LEMMA TypeInvariant == Spec => []TypeInv
BY InitTypes, NextTypes, PTL DEF Spec

(* The types hold in every reachable state, for every set of files,        *)
(* services and stores and every bound.                                    *)
THEOREM TypesCorrect == Spec => []TypeOK
<1>1. TypeInv => TypeOK
  BY DEF TypeInv
<1>2. QED
  BY <1>1, TypeInvariant, PTL

-------------------------------------------------------------------------------
(***************************************************************************)
(* What the commands append to an inbox: the messages that were there stay *)
(* in their places, and those that come after them are among a given set.  *)
(***************************************************************************)
Messages(box) == IF box = Nil THEN <<>> ELSE box.messages

Extended(new, old, added) ==
    /\ Len(old) <= Len(new)
    /\ \A i \in 1 .. Len(old) : new[i] = old[i]
    /\ \A i \in Len(old) + 1 .. Len(new) : new[i] \in added

LEMMA MessagesAreSeq ==
    ASSUME NEW box \in MaybeInbox(Message)
    PROVE  Messages(box) \in Seq(Message) /\ Len(Messages(box)) \in Nat
<1>1. Messages(box) \in Seq(Message)
  BY EmptySeq DEF Messages, MaybeInbox, Inbox
<1>2. QED
  BY <1>1, LenProperties

LEMMA InboxesAreTyped ==
    ASSUME TypeInv
    PROVE  /\ inboxes \in [FileIds -> MaybeInbox(Message)]
           /\ \A f \in FileIds : /\ MessagesOf(f) = Messages(inboxes[f])
                                 /\ MessagesOf(f) \in Seq(Message)
                                 /\ Len(MessagesOf(f)) \in Nat
<1>1. inboxes \in [FileIds -> MaybeInbox(Message)]
  BY DEF TypeInv, TypeOK, CallTypes, MaybeInbox
<1>2. QED
  BY <1>1, MessagesAreSeq DEF MessagesOf, Messages

LEMMA PrimedMessages == \A f : MessagesOf(f)' = Messages(inboxes'[f])
BY DEF MessagesOf, Messages

LEMMA NothingAppended ==
    ASSUME NEW old \in Seq(Message), NEW A
    PROVE  Extended(old, old, A)
<1>1. Len(old) \in Nat
  BY LenProperties
<1>2. QED
  BY <1>1 DEF Extended

LEMMA AppendedExtends ==
    ASSUME NEW old \in Seq(Message), NEW ms \in Seq(Message), NEW A,
           \A i \in 1 .. Len(ms) : ms[i] \in A
    PROVE  Extended(old \o ms, old, A)
<1>1. Len(old) \in Nat /\ Len(ms) \in Nat
  BY LenProperties
<1>2. /\ Len(old \o ms) = Len(old) + Len(ms)
      /\ \A i \in 1 .. Len(old) + Len(ms) :
            (old \o ms)[i] = IF i <= Len(old) THEN old[i] ELSE ms[i - Len(old)]
  BY ConcatProperties, Zenon
<1> DEFINE new == old \o ms
<1> HIDE DEF new
<1>3. \A i \in Len(old) + 1 .. Len(new) : new[i] \in A
  <2> SUFFICES ASSUME NEW i \in Len(old) + 1 .. Len(new) PROVE new[i] \in A
    OBVIOUS
  <2>1. i \in 1 .. Len(old) + Len(ms) /\ ~(i <= Len(old)) /\ i - Len(old) \in 1 .. Len(ms)
    BY <1>1, <1>2 DEF new
  <2>2. new[i] = ms[i - Len(old)]
    BY <1>2, <2>1 DEF new
  <2>3. QED
    BY <2>1, <2>2
<1>4. \A i \in 1 .. Len(old) : new[i] = old[i]
  BY <1>1, <1>2 DEF new
<1>5. Len(old) <= Len(new)
  BY <1>1, <1>2 DEF new
<1>6. QED
  BY <1>3, <1>4, <1>5 DEF Extended, new

LEMMA QueueAllMessages ==
    ASSUME NEW box \in MaybeInbox(Message), NEW ms \in Seq(Message)
    PROVE  Messages(QueueAll(box, ms)) = Messages(box) \o ms
<1>1. QueueAll(box, ms) \in Inbox(Message)
  BY QueueAllIsInbox
<1>2. QueueAll(box, ms) # Nil
  BY <1>1, NilAssumption
<1>3. QueueAll(box, ms).messages = Ensure(box).messages \o ms
  BY DEF QueueAll
<1>4. Ensure(box).messages = Messages(box)
  BY DEF Ensure, NewInbox, Messages
<1>5. QED
  BY <1>2, <1>3, <1>4 DEF Messages

LEMMA NotifyMessages ==
    ASSUME NEW box \in MaybeInbox(Message)
    PROVE  Messages(Notify(box)) = Messages(box)
<1>1. CASE box = Nil
  BY <1>1 DEF Notify
<1>2. CASE box # Nil
  <2>1. Notify(box) \in Inbox(Message)
    BY <1>2 DEF Notify, MaybeInbox, Inbox
  <2>2. Notify(box) # Nil
    BY <2>1, NilAssumption
  <2>3. Notify(box).messages = box.messages
    BY <1>2 DEF MaybeInbox, Inbox, Notify
  <2>4. QED
    BY <1>2, <2>2, <2>3 DEF Messages
<1>3. QED
  BY <1>1, <1>2

LEMMA EnsureMessages ==
    ASSUME NEW box \in MaybeInbox(Message)
    PROVE  Messages(Ensure(box)) = Messages(box)
<1>1. Ensure(box) # Nil
  BY EnsureIsInbox, NilAssumption
<1>2. QED
  BY <1>1 DEF Ensure, NewInbox, Messages

LEMMA PopMessages ==
    ASSUME NEW box \in MaybeInbox(Message), HasMessage(box)
    PROVE  /\ Messages(Pop(box)) = Tail(Messages(box))
           /\ Messages(box) # <<>>
           /\ Head(box.messages) = Head(Messages(box))
<1>1. box # Nil /\ box \in Inbox(Message) /\ box.messages # <<>>
  BY DEF HasMessage, MaybeInbox
<1>2. Pop(box) \in Inbox(Message) /\ Pop(box).messages = Tail(box.messages)
  <2>1. Tail(box.messages) \in Seq(Message)
    BY <1>1, HeadTailProperties DEF Inbox
  <2>2. QED
    BY <1>1, <2>1 DEF Pop, Inbox
<1>3. Pop(box) # Nil
  BY <1>2, NilAssumption
<1>4. QED
  BY <1>1, <1>2, <1>3 DEF Messages

(* An inbox is never taken for none. *)
LEMMA BoxIsNotNil ==
    ASSUME NEW box \in MaybeInbox(Message)
    PROVE  /\ Ensure(box) # Nil
           /\ box # Nil => Notify(box) # Nil
           /\ HasMessage(box) => Pop(box) # Nil
           /\ \A ms \in Seq(Message) : QueueAll(box, ms) # Nil
<1>1. \A b \in Inbox(Message) : b # Nil
  BY NilAssumption
<1>2. Ensure(box) # Nil
  BY <1>1, EnsureIsInbox
<1>3. box # Nil => Notify(box) # Nil
  <2>1. box # Nil => Notify(box) \in Inbox(Message)
    BY DEF Notify, MaybeInbox, Inbox
  <2>2. QED
    BY <1>1, <2>1
<1>4. HasMessage(box) => Pop(box) # Nil
  BY <1>1, PopIsInbox
<1>5. \A ms \in Seq(Message) : QueueAll(box, ms) # Nil
  BY <1>1, QueueAllIsInbox
<1>6. QED
  BY <1>2, <1>3, <1>4, <1>5

LEMMA SendExtends ==
    ASSUME NEW boxes \in [FileIds -> MaybeInbox(Message)], NEW f \in FileIds,
           NEW m \in Message, NEW shortage, NEW g \in FileIds
    PROVE  Extended(Messages(Send(boxes, f, m, shortage)[g]), Messages(boxes[g]),
                    IF g = f THEN {m} ELSE {})
<1>1. Messages(boxes[g]) \in Seq(Message)
  BY MessagesAreSeq
<1>2. Append(Messages(boxes[g]), m) = Messages(boxes[g]) \o <<m>>
  BY <1>1
<1>3. Messages(Send(boxes, f, m, shortage)[g]) =
         IF g = f /\ f \notin shortage THEN Messages(boxes[g]) \o <<m>> ELSE Messages(boxes[g])
  <2>1. Messages(QueueAll(boxes[f], <<m>>)) = Messages(boxes[f]) \o <<m>>
    <3>1. <<m>> \in Seq(Message) /\ boxes[f] \in MaybeInbox(Message)
      OBVIOUS
    <3>2. QED
      BY <3>1, QueueAllMessages
  <2>2. QED
    BY <2>1 DEF Send
<1>4. Extended(Messages(boxes[g]) \o <<m>>, Messages(boxes[g]), {m})
  <2>1. <<m>> \in Seq(Message) /\ \A i \in 1 .. Len(<<m>>) : <<m>>[i] \in {m}
    OBVIOUS
  <2>2. QED
    BY <1>1, <2>1, AppendedExtends
<1>5. \A A : Extended(Messages(boxes[g]), Messages(boxes[g]), A)
  BY <1>1, NothingAppended
<1>6. QED
  BY <1>2, <1>3, <1>4, <1>5

(* What a mailing is: every notice comes in the mail of its addressee, and *)
(* comes once.                                                             *)
LEMMA OrderHasAll ==
    ASSUME NEW S, IsFiniteSet(S), NEW q \in Orders(S), NEW x \in S
    PROVE  \E i \in 1 .. Len(q) : q[i] = x
<1> DEFINE D == 1 .. Cardinality(S)
<1>1. Cardinality(S) \in Nat
  BY FS_CardinalityType
<1>2. q \in [D -> S] /\ \A i, j \in D : i # j => q[i] # q[j]
  BY DEF Orders, SetToSeqs
<1>3. q \in Injection(D, S)
  BY <1>2 DEF Injection, IsInjective
<1>4. IsFiniteSet(D) /\ Cardinality(D) = Cardinality(S)
  <2>1. /\ IsFiniteSet(1 .. Cardinality(S))
        /\ Cardinality(1 .. Cardinality(S)) =
              IF 1 > Cardinality(S) THEN 0 ELSE Cardinality(S) - 1 + 1
    BY <1>1, FS_Interval
  <2>2. QED
    BY <1>1, <2>1
<1>5. q \in Surjection(D, S)
  BY <1>3, <1>4, FS_Injection
<1>6. Len(q) = Cardinality(S)
  BY <1>1, <1>2, SeqDef, LenProperties
<1>7. QED
  BY <1>5, <1>6 DEF Surjection

LEMMA OrderHasEachOnce ==
    ASSUME NEW S, NEW q \in Orders(S), IsFiniteSet(S), NEW i \in 1 .. Len(q), NEW j \in 1 .. Len(q),
           q[i] = q[j]
    PROVE  i = j
<1>1. q \in [1 .. Cardinality(S) -> S] /\ \A k, l \in 1 .. Cardinality(S) : k # l => q[k] # q[l]
  BY DEF Orders, SetToSeqs
<1>2. Cardinality(S) \in Nat
  BY FS_CardinalityType
<1>3. Len(q) = Cardinality(S)
  BY <1>1, <1>2, SeqDef, LenProperties
<1>4. QED
  BY <1>1, <1>3

MailTo(mail, f) == [i \in 1 .. Len(mail[f]) |-> mail[f][i].message]

MailPosted(boxes, notices, mail, f) ==
    /\ MailTo(mail, f) \in Seq(Message)
    /\ Len(mail[f]) \in Nat /\ Len(MailTo(mail, f)) = Len(mail[f])
    /\ Messages(Post(boxes, mail)[f]) = Messages(boxes[f]) \o MailTo(mail, f)
    /\ \A i \in 1 .. Len(mail[f]) :
          /\ mail[f][i] \in notices /\ mail[f][i].to = f
          /\ MailTo(mail, f)[i] = mail[f][i].message
    /\ \A i, j \in 1 .. Len(mail[f]) : mail[f][i] = mail[f][j] => i = j
    /\ \A n \in notices : n.to = f => \E i \in 1 .. Len(mail[f]) : mail[f][i] = n

LEMMA PostMessages ==
    ASSUME NEW boxes \in [FileIds -> MaybeInbox(Message)],
           NEW notices, GoodNotices(notices), NEW mail \in Mailings(notices), NEW f \in FileIds
    PROVE  MailPosted(boxes, notices, mail, f)
<1> DEFINE mine == {n \in notices : n.to = f}
<1>1. mail[f] \in Orders(mine) /\ IsFiniteSet(mine)
  BY FS_Subset DEF Mailings, GoodNotices
<1>2. mail[f] \in Seq(mine) /\ Len(mail[f]) \in Nat
  BY <1>1, OrderIsSeq
<1>3. \A i \in 1 .. Len(mail[f]) : mail[f][i] \in mine
  BY <1>2, ElementOfSeq
<1>4. MailTo(mail, f) \in Seq(Message) /\ Len(MailTo(mail, f)) = Len(mail[f])
  <2>1. \A i \in 1 .. Len(mail[f]) : mail[f][i].message \in Message
    BY <1>3 DEF GoodNotices, NoticesAreTyped
  <2>2. MailTo(mail, f) \in [1 .. Len(mail[f]) -> Message]
    BY <2>1 DEF MailTo
  <2>3. MailTo(mail, f) \in Seq(Message)
    BY <1>2, <2>2, SeqDef
  <2>4. QED
    BY <1>2, <2>2, <2>3, LenProperties
<1>5. Messages(boxes[f]) \in Seq(Message) /\ boxes[f] \in MaybeInbox(Message)
  BY MessagesAreSeq
<1>6. Messages(Post(boxes, mail)[f]) = Messages(boxes[f]) \o MailTo(mail, f)
  <2>1. CASE mail[f] = <<>>
    <3>1. Post(boxes, mail)[f] = boxes[f]
      BY <2>1 DEF Post
    <3>2. MailTo(mail, f) = <<>>
      BY <1>4, <2>1, EmptySeq
    <3>3. Messages(boxes[f]) \o <<>> = Messages(boxes[f])
      BY <1>5
    <3>4. QED
      BY <3>1, <3>2, <3>3
  <2>2. CASE mail[f] # <<>>
    <3>1. Post(boxes, mail)[f] = QueueAll(boxes[f], MailTo(mail, f))
      BY <2>2 DEF Post, MailTo
    <3>2. QED
      BY <1>4, <1>5, <3>1, QueueAllMessages
  <2>3. QED
    BY <2>1, <2>2
<1>7. \A i, j \in 1 .. Len(mail[f]) : mail[f][i] = mail[f][j] => i = j
  BY <1>1, OrderHasEachOnce
<1>8. \A n \in notices : n.to = f => \E i \in 1 .. Len(mail[f]) : mail[f][i] = n
  BY <1>1, OrderHasAll
<1>9. QED
  BY <1>2, <1>3, <1>4, <1>6, <1>7, <1>8 DEF MailTo, MailPosted

LEMMA PostedBoxesStay ==
    ASSUME NEW boxes \in [FileIds -> MaybeInbox(Message)],
           NEW notices, GoodNotices(notices), NEW mail \in Mailings(notices), NEW f \in FileIds
    PROVE  boxes[f] # Nil => Post(boxes, mail)[f] # Nil
<1>1. MailTo(mail, f) \in Seq(Message)
  BY PostMessages DEF MailPosted
<1>2. QueueAll(boxes[f], MailTo(mail, f)) # Nil
  BY <1>1, BoxIsNotNil
<1>3. Post(boxes, mail)[f] \in {boxes[f], QueueAll(boxes[f], MailTo(mail, f))}
  BY DEF Post, MailTo
<1>4. QED
  BY <1>2, <1>3

(* The messages of the notices to one file. *)
MessagesTo(notices, f) == {n.message : n \in {x \in notices : x.to = f}}

LEMMA PostExtends ==
    ASSUME NEW boxes \in [FileIds -> MaybeInbox(Message)],
           NEW notices, GoodNotices(notices), NEW mail \in Mailings(notices), NEW f \in FileIds
    PROVE  Extended(Messages(Post(boxes, mail)[f]), Messages(boxes[f]), MessagesTo(notices, f))
<1>1. /\ MailTo(mail, f) \in Seq(Message)
      /\ Len(MailTo(mail, f)) = Len(mail[f])
      /\ Messages(Post(boxes, mail)[f]) = Messages(boxes[f]) \o MailTo(mail, f)
      /\ \A i \in 1 .. Len(mail[f]) :
            mail[f][i] \in notices /\ mail[f][i].to = f /\ MailTo(mail, f)[i] = mail[f][i].message
  BY PostMessages DEF MailPosted
<1>2. \A i \in 1 .. Len(MailTo(mail, f)) : MailTo(mail, f)[i] \in MessagesTo(notices, f)
  BY <1>1 DEF MessagesTo
<1>3. Messages(boxes[f]) \in Seq(Message)
  BY MessagesAreSeq
<1>4. QED
  BY <1>1, <1>2, <1>3, AppendedExtends

LEMMA ExtendedMore ==
    ASSUME NEW new, NEW old, NEW A, NEW B, A \subseteq B, Extended(new, old, A)
    PROVE  Extended(new, old, B)
BY DEF Extended

(* What cleaning up does to the inboxes: that of f is gone, and if the     *)
(* clean-up makes a new one there are only notices of an end in it.        *)
Ends == {m \in Message : m.type \in {"Closed", "ServiceClosed"}}

LEMMA CloseExtends ==
    ASSUME TypeInv, NEW f \in FileIds, NEW shortage, Close(f, shortage), NEW g \in FileIds
    PROVE  Extended(Messages(inboxes'[g]), IF g = f THEN <<>> ELSE Messages(inboxes[g]), Ends)
<1> DEFINE told(rank) ==
               {n \in PendingNotices(f) \union OwnerNotices(f) \union ExitNotices(f, rank) :
                    n.to \notin shortage}
           all(rank) == told(rank) \union ServiceClosedNotices(f, rank, told(rank))
           boxes == [inboxes EXCEPT ![f] = Nil]
           isEnd(n) == n.message.type \in {"Closed", "ServiceClosed"}
<1>1. PICK rank \in Ranks(f) : \E mail \in Mailings(all(rank)) : inboxes' = Post(boxes, mail)
  BY DEF Close
<1>2. GoodNotices(told(rank))
  <2>1. GoodNotices(PendingNotices(f) \union OwnerNotices(f) \union ExitNotices(f, rank))
    BY PendingNoticesTypes, OwnerNoticesTypes, ExitNoticesTypes, GoodUnion
  <2>2. QED
    BY <2>1, GoodSubset
<1>3. \A n \in told(rank) : isEnd(n)
  <2>1. \A n \in PendingNotices(f) : isEnd(n)
    BY DEF PendingNotices, Notice, EndMessage
  <2>2. \A n \in OwnerNotices(f) : isEnd(n)
    BY DEF OwnerNotices, Notice, EndMessage
  <2>3. \A n \in ExitNotices(f, rank) : isEnd(n)
    BY DEF ExitNotices, Notice, EndMessage
  <2> HIDE DEF isEnd
  <2>4. QED
    BY <2>1, <2>2, <2>3
<1> HIDE DEF told
<1>4. GoodNotices(all(rank))
  <2>1. GoodNotices(ServiceClosedNotices(f, rank, told(rank)))
    BY <1>2, ServiceClosedNoticesTypes
  <2>2. QED
    BY <1>2, <2>1, GoodUnion
<1>5. \A n \in all(rank) : isEnd(n)
  <2>1. \A n \in ServiceClosedNotices(f, rank, told(rank)) : isEnd(n)
    BY DEF ServiceClosedNotices, Notice
  <2> HIDE DEF isEnd
  <2>2. QED
    BY <1>3, <2>1
<1> HIDE DEF all
<1>6. /\ boxes \in [FileIds -> MaybeInbox(Message)]
      /\ Messages(boxes[g]) = IF g = f THEN <<>> ELSE Messages(inboxes[g])
  BY InboxesAreTyped DEF MaybeInbox, Messages
<1> HIDE DEF boxes
<1>7. Extended(Messages(inboxes'[g]), Messages(boxes[g]), MessagesTo(all(rank), g))
  BY <1>1, <1>4, <1>6, PostExtends
<1>8. MessagesTo(all(rank), g) \subseteq Ends
  BY <1>4, <1>5 DEF MessagesTo, Ends, GoodNotices, NoticesAreTyped
<1>9. QED
  BY <1>6, <1>7, <1>8, ExtendedMore

(* A message sent comes last in the inbox it is sent to. *)
LEMMA SentMessages ==
    ASSUME TypeInv, NEW f \in FileIds, NEW m \in Message, NEW shortage,
           inboxes' = Send(inboxes, f, m, shortage), NEW g \in FileIds
    PROVE  MessagesOf(g)' = IF g = f /\ f \notin shortage
                            THEN Append(MessagesOf(g), m) ELSE MessagesOf(g)
<1>1. /\ inboxes \in [FileIds -> MaybeInbox(Message)]
      /\ MessagesOf(g) = Messages(inboxes[g]) /\ MessagesOf(g) \in Seq(Message)
      /\ MessagesOf(g)' = Messages(inboxes'[g])
  BY InboxesAreTyped, PrimedMessages
<1>2. Messages(QueueAll(inboxes[f], <<m>>)) = Messages(inboxes[f]) \o <<m>>
  <2>1. <<m>> \in Seq(Message) /\ inboxes[f] \in MaybeInbox(Message)
    BY <1>1
  <2>2. QED
    BY <2>1, QueueAllMessages
<1>3. inboxes'[g] = IF g = f /\ f \notin shortage THEN QueueAll(inboxes[f], <<m>>)
                    ELSE inboxes[g]
  BY <1>1 DEF Send
<1>4. MessagesOf(g) \o <<m>> = Append(MessagesOf(g), m)
  BY <1>1
<1>5. QED
  BY <1>1, <1>2, <1>3, <1>4

(* Fetching takes the first message. *)
LEMMA PoppedMessages ==
    ASSUME TypeInv, NEW f \in FileIds, PopMessage(f)
    PROVE  /\ \A g \in FileIds : g # f => MessagesOf(g)' = MessagesOf(g)
           /\ MessagesOf(f) # <<>> /\ MessagesOf(f)' = Tail(MessagesOf(f))
           /\ Head(inboxes[f].messages) = Head(MessagesOf(f))
           /\ DOMAIN MessagesOf(f)' = 1 .. Len(MessagesOf(f)) - 1
           /\ \A i \in 1 .. Len(MessagesOf(f)) - 1 :
                 /\ MessagesOf(f)'[i] = MessagesOf(f)[i + 1]
                 /\ i + 1 \in 1 .. Len(MessagesOf(f))
<1>1. HasMessage(inboxes[f]) /\ inboxes' = [inboxes EXCEPT ![f] = Pop(inboxes[f])]
  BY DEF PopMessage
<1>2. /\ inboxes \in [FileIds -> MaybeInbox(Message)]
      /\ \A g \in FileIds : MessagesOf(g) = Messages(inboxes[g])
      /\ MessagesOf(f) \in Seq(Message) /\ Len(MessagesOf(f)) \in Nat
  BY InboxesAreTyped
<1>3. \A g \in FileIds : MessagesOf(g)' = Messages(inboxes'[g])
  BY PrimedMessages
<1>4. \A g \in FileIds : g # f => MessagesOf(g)' = MessagesOf(g)
  BY <1>1, <1>2, <1>3
<1>5. /\ MessagesOf(f) # <<>> /\ MessagesOf(f)' = Tail(MessagesOf(f))
      /\ Head(inboxes[f].messages) = Head(MessagesOf(f))
  BY <1>1, <1>2, <1>3, PopMessages
<1>6. /\ DOMAIN MessagesOf(f)' = 1 .. Len(MessagesOf(f)) - 1
      /\ \A i \in 1 .. Len(MessagesOf(f)) - 1 : MessagesOf(f)'[i] = MessagesOf(f)[i + 1]
  <2>1. /\ Tail(MessagesOf(f)) \in Seq(Message)
        /\ Len(Tail(MessagesOf(f))) = Len(MessagesOf(f)) - 1
        /\ \A i \in 1 .. Len(Tail(MessagesOf(f))) :
              Tail(MessagesOf(f))[i] = MessagesOf(f)[i + 1]
    BY <1>2, <1>5, HeadTailProperties
  <2>2. DOMAIN Tail(MessagesOf(f)) = 1 .. Len(Tail(MessagesOf(f)))
    BY <2>1, LenProperties
  <2>3. QED
    BY <1>5, <2>1, <2>2
<1>7. \A i \in 1 .. Len(MessagesOf(f)) - 1 : i + 1 \in 1 .. Len(MessagesOf(f))
  BY <1>2
<1>8. QED
  BY <1>4, <1>5, <1>6, <1>7

(* A flush puts nothing but calls into an inbox. *)
LEMMA FlushExtends ==
    ASSUME TypeInv, NEW f \in FileIds, NEW s \in ServicesOf(f), NEW shortage,
           FlushRequests(f, s, shortage), NEW g \in FileIds
    PROVE  Extended(Messages(inboxes'[g]), Messages(inboxes[g]), CallRequest)
<1> DEFINE queue == services[s].queue
           count == Len(queue)
           request(ts, i) ==
               [type |-> "FunctionCallRequest", service |-> s, client |-> queue[i].client,
                origin |-> queue[i].origin, call |-> queue[i].call, token |-> ts[i]]
           rest(ts) == [i \in 1 .. count - 1 |-> request(ts, i + 1)]
<1>1. s \in ServiceNames /\ services[s] \in BoundService
  BY DEF TypeInv, TypeOK, CallTypes, ServicesOf, BoundService
<1>2. queue \in Seq(QueuedRequest) /\ count \in Nat /\ count > 0
  BY <1>1, EmptySeq, LenProperties DEF FlushRequests, BoundService
<1>3. \A i \in 1 .. count : queue[i] \in QueuedRequest
  BY <1>2, ElementOfSeq
<1>4. PICK ts \in Allocate(replyTokens, count) :
         \/ inboxes' = inboxes
         \/ inboxes' = [inboxes EXCEPT ![f] = QueueAll(inboxes[f], rest(ts))]
  BY DEF FlushRequests
<1>5. FreshTokens(replyTokens, count, ts)
  BY <1>2, AllocateGivesFreshTokens, Zenon
<1>6. \A i \in 1 .. count : request(ts, i) \in CallRequest
  BY <1>1, <1>3, <1>5 DEF FreshTokens, QueuedRequest, CallRequest
<1>7. \A i \in 1 .. count - 1 : rest(ts)[i] \in CallRequest
  <2>1. \A i \in 1 .. count - 1 : i + 1 \in 1 .. count
    BY <1>2
  <2> HIDE DEF count, queue, request
  <2>2. QED
    BY <1>6, <2>1
<1>8. rest(ts) \in Seq(Message) /\ Len(rest(ts)) = count - 1
  <2>1. rest(ts) \in [1 .. count - 1 -> Message]
    <3> HIDE DEF request, count
    <3>1. QED
      BY <1>7 DEF Message
  <2>2. count - 1 \in Nat
    BY <1>2
  <2> HIDE DEF rest, count
  <2>3. rest(ts) \in Seq(Message)
    BY <2>1, <2>2, SeqDef
  <2>4. QED
    BY <2>1, <2>2, <2>3, LenProperties
<1> HIDE DEF rest, count
<1>9. inboxes \in [FileIds -> MaybeInbox(Message)] /\ Messages(inboxes[g]) \in Seq(Message)
  BY InboxesAreTyped, MessagesAreSeq
<1>10. Extended(Messages(inboxes[g]), Messages(inboxes[g]), CallRequest)
  BY <1>9, NothingAppended
<1>11. Extended(Messages(inboxes[g]) \o rest(ts), Messages(inboxes[g]), CallRequest)
  BY <1>7, <1>8, <1>9, AppendedExtends
<1>12. Messages(QueueAll(inboxes[g], rest(ts))) = Messages(inboxes[g]) \o rest(ts)
  BY <1>8, <1>9, QueueAllMessages
<1>13. QED
  BY <1>4, <1>9, <1>10, <1>11, <1>12

-------------------------------------------------------------------------------
(* What is posted is in the inbox. *)
LEMMA QueuedAfter ==
    ASSUME NEW box \in MaybeInbox(Message), NEW ms \in Seq(Message), NEW i \in 1 .. Len(ms)
    PROVE  /\ Len(Ensure(box).messages) \in Nat
           /\ Len(QueueAll(box, ms).messages) = Len(Ensure(box).messages) + Len(ms)
           /\ QueueAll(box, ms).messages[Len(Ensure(box).messages) + i] = ms[i]
<1>1. Ensure(box).messages \in Seq(Message)
  BY EnsureIsInbox DEF Inbox
<1> PICK old \in Seq(Message) : old = Ensure(box).messages
  BY <1>1
<1>2. QueueAll(box, ms).messages = old \o ms
  BY DEF QueueAll
<1>3. /\ Len(old \o ms) = Len(old) + Len(ms)
      /\ \A j \in 1 .. Len(old) + Len(ms) :
            (old \o ms)[j] = IF j <= Len(old) THEN old[j] ELSE ms[j - Len(old)]
  BY ConcatProperties, Zenon
<1>4. Len(old) \in Nat /\ Len(ms) \in Nat
  BY LenProperties
<1>5. (old \o ms)[Len(old) + i] = ms[i]
  BY <1>3, <1>4
<1>6. QED
  BY <1>2, <1>3, <1>4, <1>5

LEMMA NoticeIsDelivered ==
    ASSUME TypeInv, NEW f \in FileIds, NEW notices, GoodNotices(notices),
           NEW mail \in Mailings(notices),
           inboxes' = Post([inboxes EXCEPT ![f] = Nil], mail),
           NEW n \in notices, n.to \in FileIds \ {f}
    PROVE  n.message \in NewMessages(n.to)
<1> DEFINE g == n.to
           mine == {x \in notices : x.to = g}
           ms == [i \in 1 .. Len(mail[g]) |-> mail[g][i].message]
           old == Ensure(inboxes[g]).messages
<1>1. mail[g] \in Orders(mine) /\ IsFiniteSet(mine)
  BY FS_Subset DEF Mailings, GoodNotices
<1>2. mail[g] \in Seq(mine) /\ Len(mail[g]) \in Nat
  BY <1>1, OrderIsSeq
<1>3. PICK i \in 1 .. Len(mail[g]) : mail[g][i] = n
  BY <1>1, OrderHasAll
<1>4. ms \in Seq(Message) /\ Len(ms) = Len(mail[g]) /\ ms[i] = n.message
  <2>1. \A j \in 1 .. Len(mail[g]) : mail[g][j] \in notices
    BY <1>2, ElementOfSeq
  <2>2. \A j \in 1 .. Len(mail[g]) : mail[g][j].message \in Message
    BY <2>1 DEF GoodNotices, NoticesAreTyped
  <2>3. ms \in [1 .. Len(mail[g]) -> Message]
    BY <2>2
  <2>4. ms \in Seq(Message)
    BY <1>2, <2>3, SeqDef
  <2>5. Len(ms) = Len(mail[g])
    BY <1>2, <2>4, LenProperties
  <2>6. QED
    BY <1>3, <2>4, <2>5
<1>5. inboxes[g] \in MaybeInbox(Message)
  BY DEF TypeInv, TypeOK, CallTypes, MaybeInbox
<1>6. inboxes'[g] = QueueAll(inboxes[g], ms)
  <2>1. mail[g] # <<>>
    BY <1>2, <1>3
  <2>2. [inboxes EXCEPT ![f] = Nil][g] = inboxes[g]
    BY DEF TypeInv, TypeOK, CallTypes
  <2>3. QED
    BY <2>1, <2>2 DEF Post
<1>7. inboxes'[g] # Nil
  <2>1. inboxes'[g] \in Inbox(Message)
    BY <1>4, <1>5, <1>6, QueueAllIsInbox
  <2>2. QED
    BY <2>1, NilAssumption
<1>8. MessagesOf(g) = old
  BY DEF MessagesOf, Ensure, NewInbox
<1>9. /\ Len(old) \in Nat
      /\ Len(inboxes'[g].messages) = Len(old) + Len(ms)
      /\ inboxes'[g].messages[Len(old) + i] = ms[i]
  <2>1. i \in 1 .. Len(ms)
    BY <1>4
  <2> HIDE DEF ms
  <2>2. /\ Len(Ensure(inboxes[g]).messages) \in Nat
        /\ Len(QueueAll(inboxes[g], ms).messages) = Len(Ensure(inboxes[g]).messages) + Len(ms)
        /\ QueueAll(inboxes[g], ms).messages[Len(Ensure(inboxes[g]).messages) + i] = ms[i]
    <3>1. ms \in Seq(Message)
      BY <1>4
    <3>2. QED
      BY <1>5, <2>1, <3>1, QueuedAfter
  <2>3. QED
    BY <1>6, <2>2
<1> HIDE DEF old, ms, mine
<1>10. Len(old) + i \in Len(MessagesOf(g)) + 1 .. Len(inboxes'[g].messages)
  BY <1>2, <1>4, <1>8, <1>9
<1>11. QED
  BY <1>4, <1>7, <1>9, <1>10 DEF NewMessages

(* What a clean-up posts when every inbox can be allocated. *)
LEMMA CloseDelivers ==
    ASSUME TypeInv, NEW f \in FileIds, Close(f, {})
    PROVE  /\ \E rank, earlier :
                 \A n \in PendingNotices(f) \union ExitNotices(f, rank)
                             \union ServiceClosedNotices(f, rank, earlier) :
                     n.to \in FileIds \ {f} => n.message \in NewMessages(n.to)
           /\ \A g \in FileIds \ {f} : inboxes[g] # Nil => inboxes'[g] # Nil
<1> DEFINE early(rank) == PendingNotices(f) \union OwnerNotices(f) \union ExitNotices(f, rank)
           told(rank) == {n \in early(rank) : n.to \notin {}}
           all(rank) == told(rank) \union ServiceClosedNotices(f, rank, told(rank))
<1>1. PICK rank \in Ranks(f) : \E mail \in Mailings(all(rank)) :
         inboxes' = Post([inboxes EXCEPT ![f] = Nil], mail)
  BY DEF Close
<1>2. told(rank) = early(rank)
  OBVIOUS
<1>3. GoodNotices(early(rank))
  BY PendingNoticesTypes, OwnerNoticesTypes, ExitNoticesTypes, GoodUnion
<1>4. GoodNotices(all(rank))
  BY <1>2, <1>3, ServiceClosedNoticesTypes, GoodUnion
<1>5. \A n \in all(rank) : n.to \in FileIds \ {f} => n.message \in NewMessages(n.to)
  <2> HIDE DEF all
  <2>1. QED
    BY <1>1, <1>4, NoticeIsDelivered
<1>6. \A g \in FileIds \ {f} : inboxes[g] # Nil => inboxes'[g] # Nil
  <2> DEFINE boxes == [inboxes EXCEPT ![f] = Nil]
  <2>1. /\ boxes \in [FileIds -> MaybeInbox(Message)]
        /\ \A g \in FileIds \ {f} : boxes[g] = inboxes[g]
    BY InboxesAreTyped DEF MaybeInbox
  <2>2. \E mail \in Mailings(all(rank)) : inboxes' = Post(boxes, mail)
    BY <1>1
  <2> HIDE DEF all, boxes
  <2>3. PICK mail \in Mailings(all(rank)) : inboxes' = Post(boxes, mail)
    BY <2>2
  <2>4. \A g \in FileIds : boxes[g] # Nil => Post(boxes, mail)[g] # Nil
    BY <1>4, <2>1, PostedBoxesStay
  <2>5. QED
    BY <2>1, <2>3, <2>4
<1>7. QED
  BY <1>2, <1>5, <1>6
===============================================================================
