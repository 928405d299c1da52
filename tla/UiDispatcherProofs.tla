-------------------------- MODULE UiDispatcherProofs --------------------------
(***************************************************************************)
(* The UI integration for any services, stores and numbers of              *)
(* subscriptions and writes, whether commands, fetches and waits may fail  *)
(* or not: types; the kernel serves no subscription that the process has   *)
(* forgotten but for the three known reasons; the process forgets no entry *)
(* that has lost its subscription; and what a component shows, or is about *)
(* to, is the value of the store.                                          *)
(***************************************************************************)
EXTENDS UiDispatcher, FiniteSetTheorems, SequenceTheorems, TLAPS

LEMMA Bounds == MaxSubscribes \in Nat /\ MaxWrites \in Nat
  BY UiAssumption

StoreValue == [value : Values, public : BOOLEAN]

LEMMA NilIsNoStore == Nil \notin StoreValue
<1>1. Values \subseteq Nat
  BY Bounds DEF Values
<1>2. StoreValue \subseteq [value : Nat, public : BOOLEAN]
  BY <1>1 DEF StoreValue
<1>3. QED
  BY <1>2, UiAssumption

LEMMA MessagesAreMessages ==
    /\ \A type \in {"Accepted", "Updated"}, id \in Ids, v \in Values :
          ValueMessage(type, id, v) \in Message
    /\ \A type \in {"Rejected", "Closed"}, id \in Ids : EndMessage(type, id) \in Message
    /\ \A s \in Services : ServiceClosed(s) \in Message
  BY DEF Message, ValueMessage, EndMessage, ServiceClosed

(* What the kernel tells the members of a set, one by one in any order, is *)
(* a sequence with one message for each.                                   *)
LEMMA OrderOfIds ==
    ASSUME NEW S \in SUBSET Ids, NEW ids \in InAnyOrder(S)
    PROVE  \E n \in Nat : ids \in [1 .. n -> S]
<1>1. IsFiniteSet(Ids)
  BY Bounds, FS_Interval DEF Ids
<1>2. Cardinality(S) \in Nat
  BY <1>1, FS_Subset, FS_CardinalityType
<1>3. QED
  BY <1>2 DEF InAnyOrder, SetToSeqs

LEMMA MessagePerId ==
    ASSUME NEW S \in SUBSET Ids, NEW ids \in InAnyOrder(S)
    PROVE  /\ \A v \in Values :
                 [i \in DOMAIN ids |-> ValueMessage("Updated", ids[i], v)] \in Seq(Message)
           /\ [i \in DOMAIN ids |-> EndMessage("Closed", ids[i])] \in Seq(Message)
<1>1. PICK n \in Nat : ids \in [1 .. n -> S]
  BY OrderOfIds
<1>2. \A v \in Values :
          [i \in DOMAIN ids |-> ValueMessage("Updated", ids[i], v)] \in [1 .. n -> Message]
  BY <1>1, MessagesAreMessages
<1>3. [i \in DOMAIN ids |-> EndMessage("Closed", ids[i])] \in [1 .. n -> Message]
  BY <1>1, MessagesAreMessages
<1>4. QED
  BY <1>1, <1>2, <1>3

InInbox(m) == inbox # Nil /\ \E i \in DOMAIN inbox : inbox[i] = m

LEMMA QueuedMessages ==
    ASSUME inbox \in Seq(Message) \cup {Nil}, NEW ms \in Seq(Message)
    PROVE  /\ Queued(ms) \in Seq(Message)
           /\ \A i \in DOMAIN Queued(ms) :
                 InInbox(Queued(ms)[i]) \/ \E j \in DOMAIN ms : Queued(ms)[i] = ms[j]
<1> DEFINE old == IF inbox = Nil THEN <<>> ELSE inbox
<1>1. old \in Seq(Message)
  BY EmptySeq
<1>2. Queued(ms) = old \o ms
  BY DEF Queued
<1>3. \A i \in DOMAIN old : InInbox(old[i])
  BY EmptySeq DEF InInbox
<1> HIDE DEF old
<1>4. old \o ms \in Seq(Message)
  BY <1>1, ConcatProperties
<1>5. \A i \in DOMAIN (old \o ms) :
          \/ i \in DOMAIN old /\ (old \o ms)[i] = old[i]
          \/ \E j \in DOMAIN ms : (old \o ms)[i] = ms[j]
  <2> SUFFICES ASSUME NEW i \in DOMAIN (old \o ms), i \notin DOMAIN old
               PROVE  \E j \in DOMAIN ms : (old \o ms)[i] = ms[j]
    BY <1>1, ConcatProperties
  <2>1. /\ i \in 1 .. Len(old) + Len(ms) /\ i > Len(old)
        /\ Len(old) \in Nat /\ Len(ms) \in Nat
    BY <1>1, ConcatProperties, LenProperties
  <2>2. i - Len(old) \in DOMAIN ms /\ (old \o ms)[i] = ms[i - Len(old)]
    BY <1>1, <2>1, ConcatProperties, LenProperties
  <2>3. QED
    BY <2>2
<1>6. QED
  BY <1>2, <1>3, <1>4, <1>5

-----------------------------------------------------------------------------
(* Types, and what they rest on: what the kernel follows or asks about is  *)
(* in the hands of a thread and has a store, and what the dispatcher has   *)
(* in hand is a message.                                                   *)
Asked == {"failing", "held", "removing", "over"}

Anchored ==
    \A id \in active \cup pending :
        sub[id] \in Asked /\ service[id] \in Services /\ store[service[id]] # Nil

ServicesKnown == \A id \in Ids : sub[id] # "unused" => service[id] \in Services

HandInv ==
    /\ at \in {"dispatching", "sending"} => hand \in Message
    /\ at = "sending" => HasValue(hand)

UiInv ==
    /\ UiTypeOK /\ Anchored /\ ServicesKnown /\ HandInv
    /\ active \cap pending = {}

LEMMA ValueMessageFields ==
    ASSUME NEW m \in Message, HasValue(m)
    PROVE  m.id \in Ids /\ m.value \in Values
  BY DEF Message, HasValue

LEMMA NextWrite ==
    ASSUME UiTypeOK, lastWrite < MaxWrites, lastWrite' = lastWrite + 1
    PROVE  lastWrite' \in 0 .. MaxWrites /\ lastWrite' \in Values
<1>1. lastWrite \in 0 .. MaxWrites /\ MaxWrites \in Nat
  BY Bounds DEF UiTypeOK
<1>2. QED
  BY <1>1 DEF Values

LEMMA CreateInv ==
    ASSUME UiInv, NEW s \in Services, NEW public \in Visibilities, CreateStore(s, public)
    PROVE  UiInv'
<1>1. lastWrite' \in 0 .. MaxWrites /\ lastWrite' \in Values
  BY NextWrite DEF CreateStore, UiInv
<1>2. public \in BOOLEAN
  BY UiAssumption
<1>3. [value |-> lastWrite', public |-> public] \in StoreValue
  BY <1>1, <1>2 DEF StoreValue
<1>4. store' \in [Services -> StoreValue \cup {Nil}] /\ store'[s] # Nil
      /\ \A r \in Services : r # s => store'[r] = store[r]
  BY <1>3, NilIsNoStore DEF CreateStore, UiInv, UiTypeOK, StoreValue
<1>5. UiTypeOK'
  BY <1>1, <1>4 DEF CreateStore, UiInv, UiTypeOK, StoreValue, threads, thread
<1>6. Anchored'
  BY <1>4 DEF CreateStore, UiInv, Anchored, threads
<1>7. QED
  BY <1>5, <1>6 DEF CreateStore, UiInv, ServicesKnown, HandInv, threads, thread, HasValue

LEMMA UpdateInv ==
    ASSUME UiInv, NEW s \in Services, UpdateStore(s)
    PROVE  UiInv'
<1>1. lastWrite' \in 0 .. MaxWrites /\ lastWrite' \in Values
  BY NextWrite DEF UpdateStore, UiInv
<1>2. store[s] \in StoreValue
  BY DEF UpdateStore, UiInv, UiTypeOK, StoreValue
<1>3. [store[s] EXCEPT !.value = lastWrite'] \in StoreValue
  BY <1>1, <1>2 DEF StoreValue
<1>4. store' \in [Services -> StoreValue \cup {Nil}] /\ store'[s] # Nil
      /\ \A r \in Services : r # s => store'[r] = store[r]
  BY <1>3, NilIsNoStore DEF UpdateStore, UiInv, UiTypeOK, StoreValue
<1>5. inbox' \in Seq(Message) \cup {Nil}
  <2>1. Followers(s) \in SUBSET Ids /\ inbox \in Seq(Message) \cup {Nil}
    BY DEF Followers, UiInv, UiTypeOK
  <2>2. PICK told \in SUBSET Followers(s) : \E ids \in InAnyOrder(told) :
              \/ inbox' = inbox
              \/ inbox' = Queued([i \in DOMAIN ids |->
                                     ValueMessage("Updated", ids[i], lastWrite')])
    BY DEF UpdateStore
  <2>3. told \in SUBSET Ids
    BY <2>1, <2>2
  <2>4. PICK ids \in InAnyOrder(told) :
              \/ inbox' = inbox
              \/ inbox' = Queued([i \in DOMAIN ids |->
                                     ValueMessage("Updated", ids[i], lastWrite')])
    BY <2>2
  <2>5. [i \in DOMAIN ids |-> ValueMessage("Updated", ids[i], lastWrite')] \in Seq(Message)
    BY <1>1, <2>3, MessagePerId
  <2>6. QED
    BY <2>1, <2>4, <2>5, QueuedMessages
<1>6. unheard' \subseteq Ids
  BY DEF UpdateStore, Followers, UiInv, UiTypeOK
<1>7. UiTypeOK'
  BY <1>1, <1>4, <1>5, <1>6 DEF UpdateStore, UiInv, UiTypeOK, StoreValue, threads, thread
<1>8. Anchored'
  BY <1>4 DEF UpdateStore, UiInv, Anchored, threads
<1>9. QED
  BY <1>7, <1>8 DEF UpdateStore, UiInv, ServicesKnown, HandInv, threads, thread, HasValue

LEMMA VerdictInv ==
    ASSUME UiInv, NEW id \in Ids, NEW accepted \in BOOLEAN, Verdict(id, accepted)
    PROVE  UiInv'
<1>1. service[id] \in Services /\ store[service[id]] \in StoreValue
  BY DEF Verdict, UiInv, Anchored, UiTypeOK, StoreValue
<1>2. inbox' \in Seq(Message) \cup {Nil}
  <2>1. /\ ValueMessage("Accepted", id, store[service[id]].value) \in Message
        /\ EndMessage("Rejected", id) \in Message
    BY <1>1, MessagesAreMessages DEF StoreValue
  <2>2. inbox' \in {Queued(<<ValueMessage("Accepted", id, store[service[id]].value)>>),
                   Queued(<<EndMessage("Rejected", id)>>), inbox}
    BY DEF Verdict
  <2>3. inbox \in Seq(Message) \cup {Nil}
    BY DEF UiInv, UiTypeOK
  <2>4. \A m \in Message : Queued(<<m>>) \in Seq(Message)
    <3>1. \A m \in Message : <<m>> \in Seq(Message)
      OBVIOUS
    <3>2. QED
      BY <2>3, <3>1, QueuedMessages
  <2>5. QED
    BY <2>1, <2>2, <2>3, <2>4
<1>3. /\ active' \subseteq active \cup {id} /\ pending' = pending \ {id} /\ id \in pending
      /\ unheard' \subseteq unheard \cup {id}
  BY DEF Verdict
<1>4. UiTypeOK'
  BY <1>2, <1>3 DEF Verdict, UiInv, UiTypeOK, threads, thread
<1>5. Anchored' /\ (active \cap pending)' = {}
  BY <1>3 DEF Verdict, UiInv, Anchored, threads
<1>6. QED
  BY <1>4, <1>5 DEF Verdict, UiInv, ServicesKnown, HandInv, threads, thread, HasValue

LEMMA CloseInv ==
    ASSUME UiInv, NEW s \in Services, CloseService(s)
    PROVE  UiInv'
<1>1. store' \in [Services -> StoreValue \cup {Nil}]
      /\ \A r \in Services : r # s => store'[r] = store[r]
  BY DEF CloseService, UiInv, UiTypeOK, StoreValue
<1>2. inbox' \in Seq(Message) \cup {Nil}
  <2>1. Followers(s) \in SUBSET Ids /\ inbox \in Seq(Message) \cup {Nil}
    BY DEF Followers, UiInv, UiTypeOK
  <2>2. PICK told \in SUBSET Followers(s) : \E ids \in InAnyOrder(told) :
              \/ inbox' = Nil
              \/ inbox' = Queued([i \in DOMAIN ids |-> EndMessage("Closed", ids[i])]
                                     \o <<ServiceClosed(s)>>)
    BY DEF CloseService
  <2>3. told \in SUBSET Ids
    BY <2>1, <2>2
  <2>4. PICK ids \in InAnyOrder(told) :
              \/ inbox' = Nil
              \/ inbox' = Queued([i \in DOMAIN ids |-> EndMessage("Closed", ids[i])]
                                     \o <<ServiceClosed(s)>>)
    BY <2>2
  <2>5. [i \in DOMAIN ids |-> EndMessage("Closed", ids[i])] \in Seq(Message)
        /\ <<ServiceClosed(s)>> \in Seq(Message)
    BY <2>3, MessagePerId, MessagesAreMessages
  <2>6. [i \in DOMAIN ids |-> EndMessage("Closed", ids[i])] \o <<ServiceClosed(s)>>
            \in Seq(Message)
    BY <2>5, ConcatProperties
  <2>7. QED
    BY <2>1, <2>4, <2>6, QueuedMessages
<1>3. unheard' \subseteq Ids
  BY DEF CloseService, UiInv, UiTypeOK
<1>4. /\ \A id \in active' : id \in active /\ service[id] # s
      /\ \A id \in pending' : id \in pending /\ service[id] # s
  BY DEF CloseService, Followers
<1>5. UiTypeOK'
  BY <1>1, <1>2, <1>3, <1>4 DEF CloseService, UiInv, UiTypeOK, StoreValue, threads, thread
<1>6. Anchored' /\ (active \cap pending)' = {}
  BY <1>1, <1>4 DEF CloseService, UiInv, Anchored, threads
<1>7. QED
  BY <1>5, <1>6 DEF CloseService, UiInv, ServicesKnown, HandInv, threads, thread, HasValue

LEMMA ConnectionInv == UiInv /\ (Disconnect \/ DropHandle \/ WaitFails) => UiInv'
<1>1. UiInv /\ Disconnect => UiInv'
  BY DEF Disconnect, UiInv, UiTypeOK, Anchored, ServicesKnown, HandInv, threads, thread,
         HasValue
<1>2. UiInv /\ DropHandle => UiInv'
  BY DEF DropHandle, UiInv, UiTypeOK, Anchored, ServicesKnown, HandInv, kernel, threads,
         thread, HasValue
<1>3. UiInv /\ WaitFails => UiInv'
  BY DEF WaitFails, Move, UiInv, UiTypeOK, Anchored, ServicesKnown, HandInv, kernel, threads,
         HasValue
<1>4. QED
  BY <1>1, <1>2, <1>3

(* What StoreSubscribe does, whether it succeeds or not *)
AskResult(id, s) ==
    /\ \/ UNCHANGED <<active, pending>>
       \/ store[s] # Nil /\ active' = active \cup {id} /\ pending' = pending
       \/ store[s] # Nil /\ pending' = pending \cup {id} /\ active' = active
    /\ \/ inbox' = inbox
       \/ /\ store[s] # Nil
          /\ inbox' = Queued(<<ValueMessage("Accepted", id, store[s].value)>>)
    /\ cause' = cause \/ cause' = [cause EXCEPT ![id] = "failed"]
    /\ (active' # active \/ pending' # pending) =>
          cause' = [cause EXCEPT ![id] = "failed"] \/ sub'[id] = "held"

LEMMA SubscribeAsks ==
    ASSUME UiInv, NEW id \in Ids, sub[id] = "registered", SubscribeStore(id)
    PROVE  /\ AskResult(id, service[id])
           /\ UNCHANGED <<store, lastWrite, connected, unheard, entries, service>>
           /\ \/ /\ sub' = [sub EXCEPT ![id] = "held"]
                 /\ store[service[id]] # Nil /\ Ask(id, service[id])
              \/ sub' = [sub EXCEPT ![id] = "failing"]
<1>1. sub \in [Ids -> Points]
  BY DEF UiInv, UiTypeOK
<1>2. /\ UNCHANGED <<entries, service>>
      /\ \/ store[service[id]] # Nil /\ Ask(id, service[id]) /\ Goto(id, "held")
         \/ AskInVain(id, service[id]) /\ Goto(id, "failing")
  BY DEF SubscribeStore, NextId
<1>3. CASE store[service[id]] # Nil /\ Ask(id, service[id]) /\ Goto(id, "held")
  <2>1. sub' = [sub EXCEPT ![id] = "held"] /\ sub'[id] = "held"
    BY <1>1, <1>3 DEF Goto
  <2>2. AskResult(id, service[id]) /\ UNCHANGED <<store, lastWrite, connected, unheard>>
    BY <1>3, <2>1 DEF Ask, Enter, PublicStore, PrivateStore, AskResult
  <2>3. QED
    BY <1>2, <1>3, <2>1, <2>2
<1>4. CASE AskInVain(id, service[id]) /\ Goto(id, "failing")
  <2>1. sub' = [sub EXCEPT ![id] = "failing"]
    BY <1>4 DEF Goto
  <2>2. AskResult(id, service[id]) /\ UNCHANGED <<store, lastWrite, connected, unheard>>
    BY <1>4 DEF AskInVain, Enter, PublicStore, PrivateStore, AskResult, kernel
  <2>3. QED
    BY <1>2, <2>1, <2>2
<1>5. QED
  BY <1>2, <1>3, <1>4

LEMMA SubscribeInv ==
    ASSUME UiInv, NEW id \in Ids, SubscribeStore(id)
    PROVE  UiInv'
<1>1. UNCHANGED <<handle, at, hand, shown, connected, store, lastWrite, unheard>>
  BY DEF SubscribeStore, Register, Ask, AskInVain, Enter, kernel, thread
<1>2. /\ UiTypeOK
      /\ id \notin active \cup pending \/ sub[id] \notin {"unused", "registered"}
  BY DEF UiInv, Anchored, Asked
<1>3. CASE \E s \in Services : Register(id, s) /\ Goto(id, "registered") /\ sub[id] = "unused"
  <2>1. PICK s \in Services : Register(id, s)
    BY <1>3
  <2>2. /\ service' = [service EXCEPT ![id] = s] /\ sub' = [sub EXCEPT ![id] = "registered"]
        /\ entries' \subseteq Ids /\ UNCHANGED <<active, pending, inbox, cause>>
    BY <1>3, <2>1 DEF Register, Goto, kernel, UiInv, UiTypeOK
  <2>3. service' \in [Ids -> Services \cup {Nil}] /\ sub' \in [Ids -> Points]
    BY <2>2 DEF UiInv, UiTypeOK, Points
  <2>4. UiTypeOK'
    BY <1>1, <2>2, <2>3 DEF UiInv, UiTypeOK
  <2>5. Anchored'
    BY <1>1, <1>2, <1>3, <2>2 DEF UiInv, UiTypeOK, Anchored
  <2>6. ServicesKnown'
    BY <2>1, <2>2 DEF UiInv, UiTypeOK, ServicesKnown
  <2>7. QED
    BY <1>1, <2>2, <2>4, <2>5, <2>6 DEF UiInv, HandInv, HasValue
<1>4. CASE sub[id] = "registered"
  <2>1. service[id] \in Services
    BY <1>4 DEF UiInv, ServicesKnown
  <2>2. /\ AskResult(id, service[id])
        /\ UNCHANGED <<entries, service>>
        /\ sub' \in {[sub EXCEPT ![id] = "failing"], [sub EXCEPT ![id] = "held"]}
    BY <1>4, SubscribeAsks
  <2>3. inbox' \in Seq(Message) \cup {Nil}
    <3>1. inbox \in Seq(Message) \cup {Nil}
      BY DEF UiInv, UiTypeOK
    <3>2. CASE inbox' = inbox
      BY <3>1, <3>2
    <3>3. CASE /\ store[service[id]] # Nil
               /\ inbox' = Queued(<<ValueMessage("Accepted", id, store[service[id]].value)>>)
      <4>1. store[service[id]] \in StoreValue
        BY <2>1, <3>3 DEF UiInv, UiTypeOK, StoreValue
      <4>2. <<ValueMessage("Accepted", id, store[service[id]].value)>> \in Seq(Message)
        BY <4>1, MessagesAreMessages DEF StoreValue
      <4>3. QED
        BY <3>1, <3>3, <4>2, QueuedMessages
    <3>4. QED
      BY <2>2, <3>2, <3>3 DEF AskResult
  <2>4. sub' \in [Ids -> Points] /\ active' \subseteq Ids /\ pending' \subseteq Ids
    BY <2>2 DEF AskResult, UiInv, UiTypeOK, Points
  <2>5. cause' \in [Ids -> {Nil, "dropped", "overtaken", "failed"}]
    BY <2>2 DEF AskResult, UiInv, UiTypeOK
  <2>6. UiTypeOK'
    BY <1>1, <2>2, <2>3, <2>4, <2>5 DEF UiInv, UiTypeOK
  <2>7. Anchored' /\ (active \cap pending)' = {}
    <3>1. id \notin active \cup pending
      BY <1>2, <1>4
    <3>2. \A i \in Ids : i # id => sub'[i] = sub[i]
      BY <2>2 DEF UiInv, UiTypeOK
    <3>3. id \in active' \cup pending' =>
              sub'[id] \in {"failing", "held"} /\ store[service[id]] # Nil
      BY <2>2, <3>1 DEF AskResult, UiInv, UiTypeOK
    <3>4. \A i \in active' \cup pending' :
              sub'[i] \in Asked /\ service[i] \in Services /\ store[service[i]] # Nil
      <4> SUFFICES ASSUME NEW i \in active' \cup pending'
                   PROVE  sub'[i] \in Asked /\ service[i] \in Services /\ store[service[i]] # Nil
        OBVIOUS
      <4>1. CASE i = id
        BY <2>1, <3>3, <4>1 DEF Asked
      <4>2. CASE i # id
        <5>1. i \in active \cup pending /\ i \in Ids
          BY <2>2, <4>2 DEF AskResult, UiInv, UiTypeOK
        <5>2. QED
          BY <3>2, <4>2, <5>1 DEF UiInv, Anchored
      <4>3. QED
        BY <4>1, <4>2
    <3>5. QED
      BY <1>1, <2>2, <3>1, <3>4 DEF AskResult, UiInv, Anchored
  <2>8. ServicesKnown'
    BY <2>1, <2>2 DEF UiInv, UiTypeOK, ServicesKnown
  <2>9. QED
    BY <1>1, <2>6, <2>7, <2>8 DEF UiInv, HandInv, HasValue
<1>5. CASE /\ sub[id] = "failing" /\ entries' = entries \ {id} /\ Goto(id, "over")
           /\ UNCHANGED <<kernel, service, cause>>
  BY <1>1, <1>5 DEF Goto, kernel, UiInv, UiTypeOK, Points, Anchored, Asked, ServicesKnown,
                    HandInv, HasValue
<1>6. QED
  BY <1>3, <1>4, <1>5 DEF SubscribeStore, NextId

LEMMA UnsubscribeInv ==
    ASSUME UiInv, NEW id \in Ids, Unsubscribe(id)
    PROVE  UiInv'
<1>1. /\ UNCHANGED <<store, lastWrite, pending, inbox, connected, unheard, handle,
                     service, at, hand, shown>>
      /\ active' \subseteq active /\ entries' \subseteq entries
      /\ cause' \in {cause, [cause EXCEPT ![id] = "dropped"],
                     [cause EXCEPT ![id] = "failed"]}
      /\ sub' \in {[sub EXCEPT ![id] = "removing"], [sub EXCEPT ![id] = "over"]}
      /\ sub[id] # "unused"
  BY DEF Unsubscribe, Cancel, Goto, thread
<1>2. UiTypeOK'
  BY <1>1 DEF UiInv, UiTypeOK, Points
<1>3. Anchored' /\ ServicesKnown'
  BY <1>1 DEF UiInv, UiTypeOK, Anchored, Asked, ServicesKnown
<1>4. QED
  BY <1>1, <1>2, <1>3 DEF UiInv, HandInv, HasValue

LEMMA EndedAreEntries == ASSUME NEW m PROVE Ended(m) \subseteq entries
  BY DEF Ended

LEMMA DispatcherInv == UiInv /\ DispatcherStep => UiInv'
<1> SUFFICES ASSUME UiInv, DispatcherStep PROVE UiInv'
  OBVIOUS
<1>1. CASE Upgrade
  BY <1>1 DEF Upgrade, Move, kernel, threads, UiInv, UiTypeOK, Anchored, ServicesKnown,
              HandInv, HasValue
<1>2. CASE Fetch
  <2>1. UNCHANGED <<store, lastWrite, active, pending, connected, unheard, handle,
                    entries, service, sub, shown, cause>>
    BY <1>2 DEF Fetch, threads
  <2>2. inbox \in Seq(Message) \cup {Nil}
    BY DEF UiInv, UiTypeOK
  <2>3. HasMessage => Head(inbox) \in Message /\ Tail(inbox) \in Seq(Message)
    BY <2>2, HeadTailProperties DEF HasMessage
  <2>4. Queued(<<>>) \in Seq(Message)
    BY <2>2, EmptySeq, QueuedMessages
  <2>5. /\ inbox' \in Seq(Message) \cup {Nil}
        /\ hand' \in Message \cup {Nil}
        /\ at' \in {"sleeping", "dispatching", "ended"}
        /\ at' = "dispatching" => hand' \in Message
    BY <1>2, <2>2, <2>3, <2>4 DEF Fetch, Move
  <2>6. QED
    BY <2>1, <2>5 DEF UiInv, UiTypeOK, Anchored, ServicesKnown, HandInv
<1>3. CASE Wake
  BY <1>3 DEF Wake, Move, kernel, threads, UiInv, UiTypeOK, Anchored, ServicesKnown,
              HandInv, HasValue
<1>4. CASE Dispatch
  <2>1. /\ UNCHANGED <<store, lastWrite, active, pending, inbox, connected, unheard,
                       handle, service, sub, shown>>
        /\ entries' \subseteq Ids
        /\ cause' \in [Ids -> {Nil, "dropped", "overtaken", "failed"}]
    BY <1>4, EndedAreEntries DEF Dispatch, kernel, threads, UiInv, UiTypeOK
  <2>2. /\ hand' \in {hand, Nil} /\ at' \in {"sending", "upgrading"}
        /\ at' = "sending" => hand' = hand /\ hand \in Message /\ HasValue(hand)
    BY <1>4 DEF Dispatch, Move, UiInv, HandInv
  <2>3. QED
    BY <2>1, <2>2 DEF UiInv, UiTypeOK, Anchored, ServicesKnown, HandInv, HasValue
<1>5. CASE Send
  <2>1. hand.id \in Ids /\ hand.value \in Values
    BY <1>5, ValueMessageFields DEF Send, UiInv, HandInv
  <2>2. hand.value \in 0 .. MaxWrites
    BY <2>1, Bounds DEF Values
  <2>3. shown' \in [Ids -> 0 .. MaxWrites]
    BY <1>5, <2>1, <2>2 DEF Send, UiInv, UiTypeOK
  <2>4. QED
    BY <1>5, <2>3 DEF Send, Move, kernel, threads, UiInv, UiTypeOK, Anchored,
                      ServicesKnown, HandInv
<1>6. QED
  BY <1>1, <1>2, <1>3, <1>4, <1>5 DEF DispatcherStep

LEMMA StepInv == UiInv /\ [Next]_vars => UiInv'
<1> SUFFICES ASSUME UiInv, [Next]_vars PROVE UiInv'
  OBVIOUS
<1>1. CASE UNCHANGED vars
  BY <1>1 DEF vars, kernel, threads, thread, UiInv, UiTypeOK, Anchored, ServicesKnown,
              HandInv, HasValue
<1>2. QED
  BY <1>1, CreateInv, UpdateInv, VerdictInv, CloseInv, SubscribeInv, UnsubscribeInv,
     ConnectionInv, DispatcherInv DEF Next

LEMMA InitInv == Init => UiInv
<1> SUFFICES ASSUME Init PROVE UiInv
  OBVIOUS
<1>1. UiTypeOK
  BY Bounds DEF Init, UiTypeOK, Points, Ids
<1>2. QED
  BY <1>1 DEF Init, UiInv, Anchored, ServicesKnown, HandInv

(* Every variable of the UI integration has its type, and what the kernel  *)
(* follows for it has a store, in every reachable state.                   *)
THEOREM UiTypesCorrect == Spec => [](UiTypeOK /\ Anchored)
<1>1. UiInv => UiTypeOK /\ Anchored
  BY DEF UiInv
<1>2. QED
  BY <1>1, InitInv, StepInv, PTL DEF Spec

-----------------------------------------------------------------------------
(* StraysAreExplained is not inductive.  The news that a subscription has  *)
(* ended is true and stays true, so Dispatch never removes the entry of a  *)
(* subscription that the kernel serves, except for ServiceClosed; an entry *)
(* is there before the kernel is asked; and who drops a subscription that  *)
(* waits for its verdict, or whose command fails, leaves it with its cause.*)
Gone(id) == id \notin active \cup pending /\ sub[id] \notin {"unused", "registered"}

IsEnd(m) == m \in Message /\ m.type \in {"Rejected", "Closed"}

EndsAreTrue == \A m \in Message : IsEnd(m) /\ (InInbox(m) \/ hand = m) => Gone(m.id)

Explained(id) == cause[id] \in {"overtaken", "dropped", "failed"}

StraysInv ==
    /\ EndsAreTrue
    /\ \A id \in active \cup pending : id \in entries \/ Explained(id)
    /\ \A id \in active \cup pending :
          sub[id] \in {"failing", "removing"} => Explained(id)
    /\ \A id \in Ids : sub[id] = "registered" => id \in entries \/ Explained(id)
    /\ \A id \in Ids : sub[id] \in {"registered", "failing"} => handle

(* What has ended does not come back, for ids are used once. *)
LEMMA GoneStays ==
    ASSUME UiInv, [Next]_vars, NEW id \in Ids, Gone(id)
    PROVE  Gone(id)'
<1>1. CASE UNCHANGED <<active, pending, sub>>
  BY <1>1 DEF Gone
<1>2. CASE \E i \in Ids, accepted \in BOOLEAN : Verdict(i, accepted)
  BY <1>2 DEF Verdict, Gone, threads
<1>3. CASE \E s \in Services : CloseService(s)
  BY <1>3 DEF CloseService, Gone, threads
<1>4. CASE \E i \in Ids : SubscribeStore(i)
  <2>1. PICK i \in Ids : SubscribeStore(i)
    BY <1>4
  <2>2. i # id \/ sub[id] = "failing"
    BY <2>1 DEF SubscribeStore, NextId, Gone
  <2>3. /\ active' \subseteq active \cup {i} /\ pending' \subseteq pending \cup {i}
        /\ sub[i] = "failing" => active' = active /\ pending' = pending
    BY <2>1 DEF SubscribeStore, NextId, Register, Ask, AskInVain, Enter, kernel
  <2>4. /\ \A j \in Ids : j # i => sub'[j] = sub[j]
        /\ sub[i] = "failing" => sub'[i] = "over"
    BY <2>1 DEF SubscribeStore, NextId, Goto, UiInv, UiTypeOK
  <2>5. QED
    BY <2>2, <2>3, <2>4 DEF Gone
<1>5. CASE \E i \in Ids : Unsubscribe(i)
  <2>1. PICK i \in Ids : Unsubscribe(i)
    BY <1>5
  <2>2. active' \subseteq active /\ pending' = pending
    BY <2>1 DEF Unsubscribe, Cancel
  <2>3. /\ \A j \in Ids : j # i => sub'[j] = sub[j]
        /\ sub'[i] \in {"removing", "over"}
    BY <2>1 DEF Unsubscribe, Goto, UiInv, UiTypeOK
  <2>4. QED
    BY <2>2, <2>3 DEF Gone
<1>6. CASE Disconnect
  BY <1>6 DEF Disconnect, Gone, threads
<1>7. QED
  BY <1>1, <1>2, <1>3, <1>4, <1>5, <1>6
     DEF Next, CreateStore, UpdateStore, DropHandle, DispatcherStep, Upgrade, Fetch, Wake,
         WaitFails, Dispatch, Send, vars, kernel, threads

(* The only news of an end are a refusal and the closing of a service, and *)
(* both come in the step that makes them true.                             *)
LEMMA UpdatesAreNoEnds ==
    ASSUME UiInv, NEW s \in Services, UpdateStore(s), NEW m, IsEnd(m), InInbox(m)'
    PROVE  InInbox(m)
<1>1. Followers(s) \in SUBSET Ids /\ inbox \in Seq(Message) \cup {Nil}
  BY DEF Followers, UiInv, UiTypeOK
<1>2. PICK told \in SUBSET Followers(s) : \E ids \in InAnyOrder(told) :
            \/ inbox' = inbox
            \/ inbox' = Queued([i \in DOMAIN ids |->
                                   ValueMessage("Updated", ids[i], lastWrite')])
  BY DEF UpdateStore
<1>3. told \in SUBSET Ids
  BY <1>1, <1>2
<1>4. PICK ids \in InAnyOrder(told) :
            \/ inbox' = inbox
            \/ inbox' = Queued([i \in DOMAIN ids |->
                                   ValueMessage("Updated", ids[i], lastWrite')])
  BY <1>2
<1> DEFINE new == [i \in DOMAIN ids |-> ValueMessage("Updated", ids[i], lastWrite')]
<1>5. new \in Seq(Message)
  <2>1. lastWrite' \in Values
    BY NextWrite DEF UpdateStore, UiInv
  <2>2. QED
    BY <1>3, <2>1, MessagePerId
<1>6. \A j \in DOMAIN new : new[j].type = "Updated"
  BY DEF ValueMessage
<1> HIDE DEF new
<1>7. CASE inbox' = Queued(new)
  <2>1. PICK i \in DOMAIN Queued(new) : Queued(new)[i] = m
    BY <1>7 DEF InInbox
  <2>2. InInbox(m) \/ \E j \in DOMAIN new : m = new[j]
    BY <1>1, <1>5, <2>1, QueuedMessages
  <2>3. QED
    BY <1>6, <2>2 DEF IsEnd
<1>8. CASE inbox' = inbox
  BY <1>8 DEF InInbox
<1>9. QED
  BY <1>4, <1>7, <1>8 DEF new

LEMMA ClosingEnds ==
    ASSUME UiInv, NEW s \in Services, CloseService(s), NEW m, IsEnd(m), InInbox(m)'
    PROVE  InInbox(m) \/ \E id \in Followers(s) : m = EndMessage("Closed", id)
<1>1. Followers(s) \in SUBSET Ids /\ inbox \in Seq(Message) \cup {Nil}
  BY DEF Followers, UiInv, UiTypeOK
<1>2. inbox' # Nil
  BY DEF InInbox
<1>3. PICK told \in SUBSET Followers(s) : \E ids \in InAnyOrder(told) :
            inbox' = Queued([i \in DOMAIN ids |-> EndMessage("Closed", ids[i])]
                               \o <<ServiceClosed(s)>>)
  BY <1>2 DEF CloseService
<1>4. told \in SUBSET Ids
  BY <1>1, <1>3
<1>5. PICK ids \in InAnyOrder(told) :
            inbox' = Queued([i \in DOMAIN ids |-> EndMessage("Closed", ids[i])]
                               \o <<ServiceClosed(s)>>)
  BY <1>3
<1> DEFINE ends == [i \in DOMAIN ids |-> EndMessage("Closed", ids[i])]
           new == ends \o <<ServiceClosed(s)>>
<1>6. ends \in Seq(Message) /\ <<ServiceClosed(s)>> \in Seq(Message)
  BY <1>4, MessagePerId, MessagesAreMessages
<1>7. \A j \in DOMAIN ends : \E id \in Followers(s) : ends[j] = EndMessage("Closed", id)
  <2>1. PICK n \in Nat : ids \in [1 .. n -> told]
    BY <1>4, OrderOfIds
  <2>2. QED
    BY <1>3, <2>1
<1> HIDE DEF ends
<1>8. new \in Seq(Message)
  BY <1>6, ConcatProperties
<1>9. \A j \in DOMAIN new :
          new[j] = ServiceClosed(s) \/ \E k \in DOMAIN ends : new[j] = ends[k]
  BY <1>6, ConcatProperties, LenProperties
<1> HIDE DEF new
<1>10. PICK i \in DOMAIN Queued(new) : Queued(new)[i] = m
  BY <1>5 DEF InInbox, new, ends
<1>11. InInbox(m) \/ \E j \in DOMAIN new : m = new[j]
  BY <1>1, <1>8, <1>10, QueuedMessages
<1>12. m # ServiceClosed(s)
  BY DEF IsEnd, ServiceClosed
<1>13. QED
  BY <1>7, <1>9, <1>11, <1>12

LEMMA VerdictEnds ==
    ASSUME UiInv, NEW id \in Ids, NEW accepted \in BOOLEAN, Verdict(id, accepted),
           NEW m, IsEnd(m), InInbox(m)'
    PROVE  InInbox(m) \/ (m = EndMessage("Rejected", id) /\ ~accepted)
<1>1. service[id] \in Services /\ store[service[id]] \in StoreValue
  BY DEF Verdict, UiInv, Anchored, UiTypeOK, StoreValue
<1> DEFINE new == IF accepted THEN ValueMessage("Accepted", id, store[service[id]].value)
                  ELSE EndMessage("Rejected", id)
<1>2. new \in Message
  BY <1>1, MessagesAreMessages DEF StoreValue
<1>3. inbox \in Seq(Message) \cup {Nil} /\ (inbox' = Queued(<<new>>) \/ inbox' = inbox)
  BY DEF Verdict, UiInv, UiTypeOK
<1>4. accepted => new.type = "Accepted"
  BY DEF ValueMessage
<1> HIDE DEF new
<1>5. CASE inbox' = inbox
  BY <1>5 DEF InInbox
<1>6. CASE inbox' = Queued(<<new>>)
  <2>1. PICK i \in DOMAIN Queued(<<new>>) : Queued(<<new>>)[i] = m
    BY <1>6 DEF InInbox
  <2>2. <<new>> \in Seq(Message)
    BY <1>2
  <2>3. InInbox(m) \/ \E j \in DOMAIN <<new>> : m = <<new>>[j]
    BY <1>3, <2>1, <2>2, QueuedMessages
  <2>4. InInbox(m) \/ m = new
    BY <2>3
  <2>5. QED
    BY <1>4, <2>4 DEF IsEnd, new
<1>7. QED
  BY <1>3, <1>5, <1>6

LEMMA EndsStayTrue == UiInv /\ StraysInv /\ [Next]_vars => EndsAreTrue'
<1> SUFFICES ASSUME UiInv, StraysInv, [Next]_vars,
                    NEW m \in Message, IsEnd(m), InInbox(m)' \/ hand' = m
             PROVE  Gone(m.id)'
  BY DEF EndsAreTrue, IsEnd
<1>1. m.id \in Ids
  BY DEF IsEnd, Message
<1>2. CASE InInbox(m) \/ hand = m
  BY <1>1, <1>2, GoneStays DEF StraysInv, EndsAreTrue
<1>3. CASE \E id \in Ids, accepted \in BOOLEAN : Verdict(id, accepted)
  <2>1. PICK id \in Ids, accepted \in BOOLEAN : Verdict(id, accepted)
    BY <1>3
  <2>2. hand' = hand /\ sub' = sub
    BY <2>1 DEF Verdict, thread, threads
  <2>3. CASE m = EndMessage("Rejected", id) /\ ~accepted
    <3>1. m.id = id
      BY <2>3 DEF EndMessage
    <3>2. id \in pending /\ pending' = pending \ {id} /\ active' = active
      BY <2>1, <2>3 DEF Verdict
    <3>3. id \notin active /\ sub[id] \in Asked
      BY <3>2 DEF UiInv, Anchored
    <3>4. QED
      BY <2>2, <3>1, <3>2, <3>3 DEF Gone, Asked
  <2>4. QED
    BY <1>2, <2>1, <2>2, <2>3, VerdictEnds
<1>4. CASE \E s \in Services : CloseService(s)
  <2>1. PICK s \in Services : CloseService(s)
    BY <1>4
  <2>2. hand' = hand /\ sub' = sub
    BY <2>1 DEF CloseService, thread, threads
  <2>3. CASE \E id \in Followers(s) : m = EndMessage("Closed", id)
    <3>1. m.id \in Followers(s)
      BY <2>3 DEF EndMessage
    <3>2. active' = active \ Followers(s) /\ pending' \subseteq pending
      BY <2>1 DEF CloseService
    <3>3. m.id \in active /\ m.id \notin pending /\ sub[m.id] \in Asked
      BY <3>1 DEF Followers, UiInv, Anchored
    <3>4. QED
      BY <2>2, <3>1, <3>2, <3>3 DEF Gone, Asked
  <2>4. QED
    BY <1>2, <2>1, <2>2, <2>3, ClosingEnds
<1>5. CASE \E s \in Services : UpdateStore(s)
  BY <1>2, <1>5, UpdatesAreNoEnds DEF UpdateStore, thread
<1>6. CASE \E id \in Ids : SubscribeStore(id)
  <2>1. PICK id \in Ids : SubscribeStore(id)
    BY <1>6
  <2>2. hand' = hand
    BY <2>1 DEF SubscribeStore, thread
  <2>3. CASE inbox' = inbox
    BY <1>2, <2>2, <2>3 DEF InInbox
  <2>4. CASE /\ InInbox(m)' /\ sub[id] = "registered" /\ store[service[id]] # Nil
             /\ inbox' = Queued(<<ValueMessage("Accepted", id, store[service[id]].value)>>)
    <3> DEFINE new == ValueMessage("Accepted", id, store[service[id]].value)
    <3>1. store[service[id]] \in StoreValue
      BY <2>4 DEF UiInv, ServicesKnown, UiTypeOK, StoreValue
    <3>2. new \in Message /\ new.type = "Accepted"
      BY <3>1, MessagesAreMessages DEF StoreValue, ValueMessage
    <3> HIDE DEF new
    <3>3. <<new>> \in Seq(Message)
      BY <3>2
    <3>4. inbox \in Seq(Message) \cup {Nil}
      BY DEF UiInv, UiTypeOK
    <3>5. PICK i \in DOMAIN Queued(<<new>>) : Queued(<<new>>)[i] = m
      BY <2>4 DEF InInbox, new
    <3>6. InInbox(m) \/ \E j \in DOMAIN <<new>> : m = <<new>>[j]
      BY <3>3, <3>4, <3>5, QueuedMessages
    <3>7. InInbox(m) \/ m = new
      BY <3>6
    <3>8. QED
      BY <1>2, <3>2, <3>7 DEF IsEnd
  <2>5. CASE hand = m
    BY <1>2, <2>5
  <2>6. QED
    <3>1. CASE sub[id] = "registered"
      BY <1>2, <2>1, <2>2, <2>3, <2>4, <2>5, <3>1, SubscribeAsks DEF AskResult
    <3>2. CASE sub[id] # "registered"
      BY <2>1, <2>3, <3>2 DEF SubscribeStore, Register, kernel
    <3>3. QED
      BY <3>1, <3>2
<1>7. CASE Fetch
  <2>1. inbox \in Seq(Message) \cup {Nil}
    BY DEF UiInv, UiTypeOK
  <2>2. \A n : HasMessage /\ (n = Head(inbox) \/ \E i \in DOMAIN Tail(inbox) : Tail(inbox)[i] = n)
            => InInbox(n)
    <3>1. HasMessage => /\ inbox \in Seq(Message) /\ Len(inbox) \in Nat \ {0}
                        /\ Head(inbox) = inbox[1]
                        /\ Len(Tail(inbox)) = Len(inbox) - 1
                        /\ \A i \in 1 .. Len(inbox) - 1 : Tail(inbox)[i] = inbox[i + 1]
                        /\ Tail(inbox) \in Seq(Message)
      BY <2>1, HeadTailProperties, EmptySeq, LenProperties DEF HasMessage
    <3>2. QED
      BY <3>1 DEF HasMessage, InInbox
  <2>3. \A n : (\E i \in DOMAIN Queued(<<>>) : Queued(<<>>)[i] = n) => InInbox(n)
    <3>1. <<>> \in Seq(Message) /\ DOMAIN <<>> = {}
      OBVIOUS
    <3>2. \A i \in DOMAIN Queued(<<>>) : InInbox(Queued(<<>>)[i])
      BY <2>1, <3>1, QueuedMessages
    <3>3. QED
      BY <3>2
  <2>4. InInbox(m)' => InInbox(m)
    <3>1. CASE inbox' = inbox
      BY <3>1 DEF InInbox
    <3>2. CASE HasMessage /\ inbox' = Tail(inbox)
      BY <2>2, <3>2 DEF InInbox
    <3>3. CASE inbox' = Queued(<<>>)
      BY <2>3, <3>3 DEF InInbox
    <3>4. QED
      BY <1>7, <3>1, <3>2, <3>3 DEF Fetch
  <2>5. hand' = m => InInbox(m)
    BY <1>7, <2>2, NilAssumption DEF Fetch, Move
  <2>6. QED
    BY <1>2, <2>4, <2>5
<1>8. CASE inbox' = inbox /\ (hand' = hand \/ hand' = Nil)
  BY <1>2, <1>8, NilAssumption DEF InInbox
<1>9. CASE Disconnect
  BY <1>2, <1>9 DEF Disconnect, InInbox, thread
<1>10. QED
  BY <1>3, <1>4, <1>5, <1>6, <1>7, <1>8, <1>9
     DEF Next, CreateStore, Unsubscribe, DropHandle, DispatcherStep, Upgrade, Wake, WaitFails,
         Dispatch, Send, Move, vars, kernel, thread

(* What the steps do to one subscription *)
LEMMA CausesStay ==
    ASSUME UiInv, [Next]_vars, NEW id \in Ids, Explained(id)
    PROVE  Explained(id)'
<1>1. CASE UNCHANGED cause
  BY <1>1 DEF Explained
<1>2. CASE \E i \in Ids : SubscribeStore(i)
  BY <1>2 DEF SubscribeStore, Register, Ask, AskInVain, UiInv, UiTypeOK, Explained
<1>3. CASE \E i \in Ids : Unsubscribe(i)
  BY <1>3 DEF Unsubscribe, Cancel, UiInv, UiTypeOK, Explained
<1>4. CASE Dispatch
  BY <1>4 DEF Dispatch, UiInv, UiTypeOK, Explained
<1>5. QED
  BY <1>1, <1>2, <1>3, <1>4
     DEF Next, CreateStore, UpdateStore, Verdict, CloseService, Disconnect, DropHandle,
         DispatcherStep, Upgrade, Fetch, Wake, WaitFails, Send, vars

(* Dispatch takes out an entry of the kernel's only with a cause. *)
LEMMA DispatchExplains ==
    ASSUME UiInv, StraysInv, Dispatch, NEW id \in entries,
           id \in active \cup pending \/ sub[id] = "registered"
    PROVE  id \in entries' \/ Explained(id)'
<1>1. id \in Ids /\ hand \in Message /\ entries' = entries \ Ended(hand)
  BY DEF Dispatch, UiInv, UiTypeOK, HandInv
<1>2. ~Gone(id)
  BY DEF Gone
<1>3. CASE hand.type \in {"Rejected", "Closed"}
  <2>1. IsEnd(hand) /\ Ended(hand) = entries \cap {hand.id}
    BY <1>1, <1>3 DEF IsEnd, Ended
  <2>2. hand.id # id
    BY <1>1, <1>2, <2>1 DEF StraysInv, EndsAreTrue
  <2>3. QED
    BY <1>1, <2>1, <2>2
<1>4. CASE hand.type = "ServiceClosed"
  BY <1>1, <1>4 DEF Dispatch, UiInv, UiTypeOK, Explained
<1>5. CASE hand.type \notin {"Rejected", "Closed", "ServiceClosed"}
  BY <1>1, <1>5 DEF Ended
<1>6. QED
  BY <1>3, <1>4, <1>5

LEMMA DispatchKeepsStrays == UiInv /\ StraysInv /\ Dispatch => StraysInv'
<1> SUFFICES ASSUME UiInv, StraysInv, Dispatch PROVE StraysInv'
  OBVIOUS
<1>1. [Next]_vars
  BY DEF Next, DispatcherStep
<1>2. EndsAreTrue'
  BY <1>1, EndsStayTrue
<1>3. UNCHANGED <<active, pending, sub, handle>>
  BY DEF Dispatch, kernel, threads
<1>4. \A id \in Ids : id \in active \cup pending \/ sub[id] = "registered" =>
          /\ Explained(id) => Explained(id)'
          /\ id \in entries => id \in entries' \/ Explained(id)'
  BY <1>1, <1>3, CausesStay, DispatchExplains
<1>5. active \cup pending \subseteq Ids
  BY DEF UiInv, UiTypeOK
<1>6. QED
  BY <1>2, <1>3, <1>4, <1>5 DEF StraysInv

LEMMA SubscribeKeepsStrays ==
    ASSUME UiInv, StraysInv, NEW id \in Ids, SubscribeStore(id)
    PROVE  StraysInv'
<1>1. [Next]_vars
  BY DEF Next
<1>2. EndsAreTrue'
  BY <1>1, EndsStayTrue
<1>3. /\ UNCHANGED handle
      /\ \A i \in Ids : Explained(i) => Explained(i)'
  BY <1>1, CausesStay DEF SubscribeStore
<1>4. /\ \A i \in Ids : i # id => sub'[i] = sub[i]
      /\ sub'[id] \in {"registered", "failing", "held", "over"}
  BY DEF SubscribeStore, Goto, UiInv, UiTypeOK
<1>5. active \cup pending \subseteq Ids /\ active' \cup pending' \subseteq Ids
  BY <1>1, StepInv DEF UiInv, UiTypeOK
<1>6. /\ active' \cup pending' \subseteq active \cup pending \cup {id}
      /\ \A i \in Ids : i # id /\ i \in entries => i \in entries'
  BY DEF SubscribeStore, Register, Ask, AskInVain, Enter, kernel
<1>7. id \in active' \cup pending' =>
          /\ id \in entries' \/ Explained(id)'
          /\ sub'[id] \in {"failing", "removing"} => Explained(id)'
  <2>1. CASE sub[id] = "registered"
    <3>1. AskResult(id, service[id]) /\ entries' = entries
      BY <2>1, SubscribeAsks
    <3>2. id \notin active \cup pending
      BY <2>1 DEF UiInv, Anchored, Asked
    <3>3. id \in entries \/ Explained(id)
      BY <2>1 DEF StraysInv
    <3>4. id \in active' \cup pending' => Explained(id)' \/ sub'[id] = "held"
      BY <3>1, <3>2 DEF AskResult, Explained, UiInv, UiTypeOK
    <3>5. QED
      BY <1>3, <3>1, <3>3, <3>4
  <2>2. CASE sub[id] = "failing"
    <3>1. UNCHANGED <<active, pending>> /\ sub'[id] = "over"
      BY <2>2 DEF SubscribeStore, NextId, Goto, kernel, UiInv, UiTypeOK
    <3>2. QED
      BY <1>3, <2>2, <3>1 DEF StraysInv
  <2>3. CASE sub[id] = "unused"
    <3>1. UNCHANGED <<active, pending>>
      BY <2>3 DEF SubscribeStore, Register, kernel
    <3>2. QED
      BY <2>3, <3>1 DEF UiInv, Anchored, Asked
  <2>4. QED
    BY <2>1, <2>2, <2>3 DEF SubscribeStore, NextId
<1>8. sub'[id] = "registered" => id \in entries'
  BY DEF SubscribeStore, Register, Goto, UiInv, UiTypeOK
<1>9. sub'[id] \in {"registered", "failing"} => handle
  BY DEF SubscribeStore, Goto, UiInv, UiTypeOK, StraysInv
<1>10. \A i \in active' \cup pending' : i \in entries' \/ Explained(i)'
  BY <1>3, <1>4, <1>5, <1>6, <1>7 DEF StraysInv
<1>11. \A i \in active' \cup pending' :
          sub'[i] \in {"failing", "removing"} => Explained(i)'
  BY <1>3, <1>4, <1>5, <1>6, <1>7 DEF StraysInv
<1>12. \A i \in Ids : sub'[i] = "registered" => i \in entries' \/ Explained(i)'
  BY <1>3, <1>4, <1>6, <1>8 DEF StraysInv
<1>13. \A i \in Ids : sub'[i] \in {"registered", "failing"} => handle'
  BY <1>3, <1>4, <1>9 DEF StraysInv
<1>14. QED
  BY <1>2, <1>10, <1>11, <1>12, <1>13 DEF StraysInv

LEMMA UnsubscribeKeepsStrays ==
    ASSUME UiInv, StraysInv, NEW id \in Ids, Unsubscribe(id)
    PROVE  StraysInv'
<1>1. [Next]_vars
  BY DEF Next
<1>2. EndsAreTrue'
  BY <1>1, EndsStayTrue
<1>3. /\ UNCHANGED <<handle, pending>> /\ active' \subseteq active
      /\ active \cup pending \subseteq Ids
  BY DEF Unsubscribe, Cancel, UiInv, UiTypeOK
<1>4. /\ \A i \in Ids : i # id => sub'[i] = sub[i] /\ cause'[i] = cause[i]
      /\ sub'[id] \in {"removing", "over"}
      /\ \A i \in Ids : i # id /\ i \in entries => i \in entries'
  BY DEF Unsubscribe, Cancel, Goto, UiInv, UiTypeOK
<1>5. ASSUME id \in active' \cup pending'
      PROVE  /\ id \in entries' \/ Explained(id)'
             /\ sub'[id] = "removing" => Explained(id)'
  <2>1. CASE Cancel(id) /\ Goto(id, "removing")
    BY <1>3, <1>5, <2>1 DEF Cancel, Explained, UiInv, UiTypeOK
  <2>2. CASE Goto(id, "over") /\ UNCHANGED <<active, entries, cause>>
    BY <1>3, <1>5, <2>2 DEF StraysInv, Explained, Goto, UiInv, UiTypeOK
  <2>3. CASE sub[id] = "removing" /\ UNCHANGED <<active, cause>>
    BY <1>3, <1>5, <2>3 DEF StraysInv, Explained
  <2>4. QED
    BY <2>1, <2>2, <2>3 DEF Unsubscribe
<1>6. \A i \in active' \cup pending' : i \in entries' \/ Explained(i)'
  BY <1>3, <1>4, <1>5 DEF StraysInv, Explained
<1>7. \A i \in active' \cup pending' :
          sub'[i] \in {"failing", "removing"} => Explained(i)'
  BY <1>3, <1>4, <1>5 DEF StraysInv, Explained
<1>8. \A i \in Ids : sub'[i] = "registered" => i \in entries' \/ Explained(i)'
  BY <1>4 DEF StraysInv, Explained
<1>9. \A i \in Ids : sub'[i] \in {"registered", "failing"} => handle'
  BY <1>3, <1>4 DEF StraysInv
<1>10. QED
  BY <1>2, <1>6, <1>7, <1>8, <1>9 DEF StraysInv

(* The other steps leave the map alone, or all of it goes. *)
LEMMA OtherStepsKeepStrays ==
    ASSUME UiInv, StraysInv, [Next]_vars, UNCHANGED sub,
           active' \cup pending' \subseteq active \cup pending,
           entries' = entries \/ Disconnect,
           handle' = handle \/ DropHandle
    PROVE  StraysInv'
<1>1. EndsAreTrue'
  BY EndsStayTrue
<1>2. active \cup pending \subseteq Ids
  BY DEF UiInv, UiTypeOK
<1>3. \A id \in Ids : id \in active' \cup pending' \/ sub[id] = "registered" =>
          (Explained(id) => Explained(id)')
  BY CausesStay
<1>4. CASE Disconnect
  <2>1. ~handle /\ active' \cup pending' = {} /\ UNCHANGED handle
    BY <1>4 DEF Disconnect, Referenced
  <2>2. QED
    BY <1>1, <2>1 DEF StraysInv
<1>5. CASE UNCHANGED entries
  <2>1. \A id \in active' \cup pending' : id \in entries' \/ Explained(id)'
    BY <1>2, <1>3, <1>5 DEF StraysInv
  <2>2. \A id \in active' \cup pending' :
            sub'[id] \in {"failing", "removing"} => Explained(id)'
    BY <1>2, <1>3 DEF StraysInv
  <2>3. \A id \in Ids : sub'[id] = "registered" => id \in entries' \/ Explained(id)'
    BY <1>3, <1>5 DEF StraysInv
  <2>4. \A id \in Ids : sub'[id] \in {"registered", "failing"} => handle'
    BY DEF StraysInv, DropHandle
  <2>5. QED
    BY <1>1, <2>1, <2>2, <2>3, <2>4 DEF StraysInv
<1>6. QED
  BY <1>4, <1>5

LEMMA StepStrays == UiInv /\ StraysInv /\ [Next]_vars => StraysInv'
<1> SUFFICES ASSUME UiInv, StraysInv, [Next]_vars PROVE StraysInv'
  OBVIOUS
<1>1. CASE \E id \in Ids : SubscribeStore(id) \/ Unsubscribe(id)
  BY <1>1, SubscribeKeepsStrays, UnsubscribeKeepsStrays
<1>2. CASE Dispatch
  BY <1>2, DispatchKeepsStrays
<1>3. CASE /\ UNCHANGED sub /\ active' \cup pending' \subseteq active \cup pending
           /\ entries' = entries \/ Disconnect
           /\ handle' = handle \/ DropHandle
  BY <1>3, OtherStepsKeepStrays
<1>4. CASE \E id \in Ids, accepted \in BOOLEAN : Verdict(id, accepted)
  <2>1. PICK id \in Ids, accepted \in BOOLEAN : Verdict(id, accepted)
    BY <1>4
  <2>2. /\ UNCHANGED sub /\ active' \cup pending' \subseteq active \cup pending
        /\ entries' = entries /\ handle' = handle
    BY <2>1 DEF Verdict, threads
  <2>3. QED
    BY <1>3, <2>2
<1>5. CASE \E s \in Services : CloseService(s)
  <2>1. PICK s \in Services : CloseService(s)
    BY <1>5
  <2>2. /\ UNCHANGED sub /\ active' \cup pending' \subseteq active \cup pending
        /\ entries' = entries /\ handle' = handle
    BY <2>1 DEF CloseService, threads
  <2>3. QED
    BY <1>3, <2>2
<1>6. CASE \/ \E s \in Services, public \in Visibilities : CreateStore(s, public)
           \/ \E s \in Services : UpdateStore(s)
           \/ DropHandle \/ Disconnect \/ Upgrade \/ Fetch \/ Wake \/ WaitFails \/ Send
           \/ UNCHANGED vars
  <2>1. /\ UNCHANGED sub /\ active' \cup pending' \subseteq active \cup pending
        /\ entries' = entries \/ Disconnect
        /\ handle' = handle \/ DropHandle
    BY <1>6 DEF CreateStore, UpdateStore, DropHandle, Disconnect, Upgrade, Fetch, Wake,
                WaitFails, Send, vars, kernel, threads
  <2>2. QED
    BY <1>3, <2>1
<1>7. QED
  BY <1>1, <1>2, <1>4, <1>5, <1>6 DEF Next, DispatcherStep

LEMMA InitStrays == Init => StraysInv
  BY NilAssumption DEF Init, StraysInv, EndsAreTrue, InInbox, IsEnd

(* The kernel serves a subscription the process has forgotten only when a  *)
(* ServiceClosed of an earlier life of the service overtook it, or when it *)
(* was dropped while it waited for its verdict, or when the command that   *)
(* subscribed or unsubscribed it failed.                                   *)
THEOREM StraysHaveACause == Spec => []StraysAreExplained
<1>1. UiInv /\ StraysInv => StraysAreExplained
  BY DEF StraysInv, StraysAreExplained, Explained
<1>2. Init => UiInv /\ StraysInv
  BY InitInv, InitStrays
<1>3. UiInv /\ StraysInv /\ [Next]_vars => UiInv' /\ StraysInv'
  BY StepInv, StepStrays
<1>4. QED
  BY <1>1, <1>2, <1>3, PTL DEF Spec

-----------------------------------------------------------------------------
(* What is on its way to the channels, Coming: the kernel appends to it,   *)
(* the dispatcher takes from its head, and Fetch moves a message from the  *)
(* inbox to the hand, which was empty.                                     *)
HandIdle == at \in {"upgrading", "fetching", "sleeping"} => hand = Nil

Unfetched == IF inbox = Nil THEN <<>> ELSE inbox
InHand == IF hand = Nil THEN <<>> ELSE <<hand>>

LEMMA ComingIs ==
    ASSUME UiTypeOK
    PROVE  /\ Unfetched \in Seq(Message) /\ InHand \in Seq(Message)
           /\ Coming = InHand \o Unfetched /\ Coming \in Seq(Message)
           /\ Queued(<<>>) = Unfetched
<1>. inbox \in Seq(Message) \cup {Nil} /\ hand \in Message \cup {Nil}
  BY DEF UiTypeOK
<1>1. Unfetched \in Seq(Message) /\ InHand \in Seq(Message)
  BY EmptySeq DEF Unfetched, InHand
<1>2. Queued(<<>>) = Unfetched \o <<>>
  BY DEF Queued, Unfetched
<1>3. Unfetched \o <<>> = Unfetched
  BY <1>1, ConcatEmptySeq
<1>4. Coming = InHand \o Unfetched
  BY <1>2, <1>3 DEF Coming, InHand
<1>5. InHand \o Unfetched \in Seq(Message)
  BY <1>1, ConcatProperties
<1>6. QED
  BY <1>1, <1>2, <1>3, <1>4, <1>5

(* What a kernel step appends is what is coming as well. *)
LEMMA QueuedComes ==
    ASSUME UiTypeOK, NEW ms \in Seq(Message), inbox' = Queued(ms), hand' = hand
    PROVE  Coming' = Coming \o ms /\ inbox' # Nil
<1>1. Unfetched \in Seq(Message) /\ InHand \in Seq(Message) /\ Coming = InHand \o Unfetched
  BY ComingIs
<1>2. inbox' = Unfetched \o ms
  BY DEF Queued, Unfetched
<1>3. Unfetched \o ms \in Seq(Message)
  BY <1>1, ConcatProperties
<1>4. inbox' # Nil
  BY <1>2, <1>3, NilAssumption
<1>5. Coming' = InHand \o (inbox' \o <<>>)
  BY <1>4 DEF Coming, Queued, InHand
<1>6. inbox' \o <<>> = inbox'
  BY <1>2, <1>3, ConcatEmptySeq
<1>7. InHand \o (Unfetched \o ms) = (InHand \o Unfetched) \o ms
  BY <1>1, ConcatAssociative
<1>8. QED
  BY <1>1, <1>2, <1>4, <1>5, <1>6, <1>7

LEMMA NothingNewComes ==
    ASSUME UNCHANGED <<inbox, hand>>
    PROVE  Coming' = Coming
  BY DEF Coming, Queued

(* Everybody is told: an order of a set names each of its members. *)
LEMMA OrderNamesAll ==
    ASSUME NEW S \in SUBSET Ids, NEW ids \in InAnyOrder(S), NEW id \in S
    PROVE  \E i \in DOMAIN ids : ids[i] = id
<1>1. IsFiniteSet(Ids)
  BY Bounds, FS_Interval DEF Ids
<1>2. IsFiniteSet(S) /\ Cardinality(S) \in Nat
  BY <1>1, FS_Subset, FS_CardinalityType
<1> DEFINE D == 1 .. Cardinality(S)
<1>3. IsFiniteSet(D) /\ Cardinality(D) = Cardinality(S)
  BY <1>2, FS_Interval
<1>4. ids \in [D -> S] /\ \A i, j \in D : i # j => ids[i] # ids[j]
  BY DEF InAnyOrder, SetToSeqs
<1>5. ids \in Injection(D, S)
  BY <1>4 DEF Injection, IsInjective
<1>6. ids \in Surjection(D, S)
  BY <1>2, <1>3, <1>5, FS_Injection, Zenon
<1>7. QED
  BY <1>4, <1>6 DEF Surjection

(* The messages of UpdateStore: one value for each follower that is told *)
LEMMA UpdatesQueued ==
    ASSUME UiInv, NEW s \in Services, UpdateStore(s)
    PROVE  \E told \in SUBSET Followers(s), ms \in Seq(Message) :
              /\ unheard' = (unheard \ told) \cup (Followers(s) \ told)
              /\ inbox' = Queued(ms) \/ (inbox' = inbox /\ ms = <<>>)
              /\ \A i \in DOMAIN ms :
                    \E id \in told : ms[i] = ValueMessage("Updated", id, lastWrite')
              /\ \A id \in told :
                    \E i \in DOMAIN ms : ms[i] = ValueMessage("Updated", id, lastWrite')
              /\ \A i, j \in DOMAIN ms : ms[i] = ms[j] => i = j
<1>1. PICK told \in SUBSET Followers(s) :
          /\ unheard' = (unheard \ told) \cup (Followers(s) \ told)
          /\ \E ids \in InAnyOrder(told) :
                inbox' = IF ids = <<>> THEN inbox
                         ELSE Queued([i \in DOMAIN ids |->
                                        ValueMessage("Updated", ids[i], lastWrite')])
  BY DEF UpdateStore
<1>2. told \in SUBSET Ids
  BY DEF Followers, UiInv, UiTypeOK
<1>3. PICK ids \in InAnyOrder(told) :
            inbox' = IF ids = <<>> THEN inbox
                     ELSE Queued([i \in DOMAIN ids |->
                                    ValueMessage("Updated", ids[i], lastWrite')])
  BY <1>1
<1> DEFINE ms == [i \in DOMAIN ids |-> ValueMessage("Updated", ids[i], lastWrite')]
<1>4. PICK n \in Nat : ids \in [1 .. n -> told]
  BY <1>2, OrderOfIds
<1>5. ms \in Seq(Message)
  <2>1. lastWrite' \in Values
    BY NextWrite DEF UpdateStore, UiInv
  <2>2. QED
    BY <1>2, <2>1, MessagePerId
<1>6. /\ DOMAIN ms = DOMAIN ids
      /\ \A i \in DOMAIN ms : ids[i] \in told
                              /\ ms[i] = ValueMessage("Updated", ids[i], lastWrite')
  BY <1>4
<1>7. \A id \in told : \E i \in DOMAIN ids : ids[i] = id
  BY <1>2, OrderNamesAll
<1>8. ids = <<>> => ms = <<>>
  OBVIOUS
<1>9. inbox' = Queued(ms) \/ (inbox' = inbox /\ ms = <<>>)
  BY <1>3, <1>8
<1> HIDE DEF ms
<1>10. \A i \in DOMAIN ms :
          \E id \in told : ms[i] = ValueMessage("Updated", id, lastWrite')
  BY <1>6
<1>11. \A id \in told :
          \E i \in DOMAIN ms : ms[i] = ValueMessage("Updated", id, lastWrite')
  BY <1>6, <1>7
<1>12. \A i, j \in DOMAIN ids : i # j => ids[i] # ids[j]
  BY DEF InAnyOrder, SetToSeqs
<1>13. \A i, j \in DOMAIN ms : ms[i] = ms[j] => i = j
  <2>1. \A x, y : ValueMessage("Updated", x, lastWrite') = ValueMessage("Updated", y, lastWrite')
                     => x = y
    BY DEF ValueMessage
  <2>2. QED
    BY <1>6, <1>12, <2>1
<1>14. QED
  BY <1>5, <1>9, <1>10, <1>11, <1>13, <1>1

LEMMA VerdictQueued ==
    ASSUME UiInv, NEW id \in Ids, NEW accepted \in BOOLEAN, Verdict(id, accepted)
    PROVE  \/ inbox' = inbox /\ unheard' = unheard \cup {id}
           \/ /\ unheard' = unheard
              /\ accepted => ValueMessage("Accepted", id, Current(id)) \in Message
                             /\ inbox' = Queued(<<ValueMessage("Accepted", id, Current(id))>>)
              /\ ~accepted => EndMessage("Rejected", id) \in Message
                              /\ inbox' = Queued(<<EndMessage("Rejected", id)>>)
<1>1. store[service[id]] \in StoreValue
  BY DEF Verdict, UiInv, Anchored, UiTypeOK, StoreValue
<1>2. Current(id) \in Values
  BY <1>1 DEF Current, StoreValue
<1>3. QED
  BY <1>2, MessagesAreMessages DEF Verdict, Current

(* What subscribing may queue is the value of the store, and who is held   *)
(* after it waits for a verdict or has it on the way.                      *)
LEMMA AskQueued ==
    ASSUME UiInv, NEW id \in Ids, sub[id] = "registered", SubscribeStore(id)
    PROVE  /\ \/ inbox' = inbox
              \/ /\ ValueMessage("Accepted", id, Current(id)) \in Message
                 /\ inbox' = Queued(<<ValueMessage("Accepted", id, Current(id))>>)
           /\ sub'[id] = "held" =>
                 \/ active' = active /\ pending' = pending \cup {id}
                 \/ /\ id \in active'
                    /\ ValueMessage("Accepted", id, Current(id)) \in Message
                    /\ inbox' = Queued(<<ValueMessage("Accepted", id, Current(id))>>)
<1>1. service[id] \in Services /\ sub \in [Ids -> Points]
  BY DEF UiInv, ServicesKnown, UiTypeOK
<1>2. store[service[id]] # Nil =>
          /\ store[service[id]].public \in BOOLEAN
          /\ Current(id) \in Values
  BY <1>1 DEF UiInv, UiTypeOK, Current
<1>3. store[service[id]] # Nil => ValueMessage("Accepted", id, Current(id)) \in Message
  BY <1>2, MessagesAreMessages
<1>4. /\ AskResult(id, service[id])
      /\ sub'[id] = "held" => store[service[id]] # Nil /\ Ask(id, service[id])
  BY <1>1, SubscribeAsks
<1>5. \/ inbox' = inbox
      \/ /\ ValueMessage("Accepted", id, Current(id)) \in Message
         /\ inbox' = Queued(<<ValueMessage("Accepted", id, Current(id))>>)
  BY <1>3, <1>4 DEF AskResult, Current
<1>6. CASE sub'[id] = "held" /\ store[service[id]].public
  BY <1>3, <1>4, <1>5, <1>6 DEF Ask, Enter, PublicStore, Current
<1>7. CASE sub'[id] = "held" /\ ~store[service[id]].public
  BY <1>4, <1>5, <1>7 DEF Ask, Enter, PublicStore, PrivateStore
<1>8. QED
  BY <1>5, <1>6, <1>7

(* The messages of CloseService: nothing that is a value, ServiceClosed at *)
(* the end.                                                                *)
LEMMA ClosingQueued ==
    ASSUME UiInv, NEW s \in Services, CloseService(s)
    PROVE  \/ /\ inbox = Nil /\ inbox' = Nil
              /\ unheard' = unheard \cup {id \in active \cup pending : service[id] = s}
           \/ \E ms \in Seq(Message) :
                 /\ inbox' = Queued(ms)
                 /\ ServiceClosed(s) \in Range(ms)
                 /\ \A m \in Range(ms) : m.type \in {"Closed", "ServiceClosed"}
<1>1. PICK told \in SUBSET Followers(s) :
          /\ \E ids \in InAnyOrder(told) :
                inbox' = IF inbox = Nil /\ ids = <<>> THEN Nil
                         ELSE Queued([i \in DOMAIN ids |-> EndMessage("Closed", ids[i])]
                                         \o <<ServiceClosed(s)>>)
          /\ unheard' = IF inbox = Nil /\ told = {}
                        THEN unheard \cup {id \in active \cup pending : service[id] = s}
                        ELSE unheard
  BY DEF CloseService
<1>2. told \in SUBSET Ids
  BY DEF Followers, UiInv, UiTypeOK
<1>3. PICK ids \in InAnyOrder(told) :
          inbox' = IF inbox = Nil /\ ids = <<>> THEN Nil
                   ELSE Queued([i \in DOMAIN ids |-> EndMessage("Closed", ids[i])]
                                   \o <<ServiceClosed(s)>>)
  BY <1>1
<1>4. ids = <<>> => told = {}
  <2>1. \A id \in told : \E i \in DOMAIN ids : ids[i] = id
    BY <1>2, OrderNamesAll
  <2>2. QED
    BY <2>1
<1> DEFINE ends == [i \in DOMAIN ids |-> EndMessage("Closed", ids[i])]
<1>5. ends \in Seq(Message) /\ <<ServiceClosed(s)>> \in Seq(Message)
  BY <1>2, MessagePerId, MessagesAreMessages
<1> HIDE DEF ends
<1>6. ends \o <<ServiceClosed(s)>> \in Seq(Message)
  BY <1>5, ConcatProperties
<1>7. ServiceClosed(s) \in Range(<<ServiceClosed(s)>>)
  <2>1. <<ServiceClosed(s)>>[1] = ServiceClosed(s) /\ 1 \in DOMAIN <<ServiceClosed(s)>>
    OBVIOUS
  <2>2. QED
    BY <2>1 DEF Range
<1>8. ServiceClosed(s) \in Range(ends \o <<ServiceClosed(s)>>)
  <2>1. Range(ends \o <<ServiceClosed(s)>>) = Range(ends) \cup Range(<<ServiceClosed(s)>>)
    BY <1>5, RangeConcatenation, Zenon
  <2>2. QED
    BY <1>7, <2>1, Zenon
<1>9. \A m \in Range(ends \o <<ServiceClosed(s)>>) : m.type \in {"Closed", "ServiceClosed"}
  <2>1. Range(ends \o <<ServiceClosed(s)>>) = Range(ends) \cup Range(<<ServiceClosed(s)>>)
    BY <1>5, RangeConcatenation, Zenon
  <2>2. \A m \in Range(ends) : m.type = "Closed"
    BY DEF ends, Range, EndMessage
  <2>3. \A m \in Range(<<ServiceClosed(s)>>) : m.type = "ServiceClosed"
    BY DEF Range, ServiceClosed
  <2>4. QED
    BY <2>1, <2>2, <2>3
<1>10. QED
  BY <1>3, <1>4, <1>6, <1>8, <1>9, <1>1 DEF ends

-----------------------------------------------------------------------------
(* Nobody is forgotten in the map.  NoDeadEntries needs only that the hand *)
(* is empty between two messages: an entry that has lost its subscription  *)
(* has the news of it on the way, and Dispatch takes the entry out with    *)
(* the news.                                                               *)
IsNews(m, id) ==
    \/ m.type \in {"Rejected", "Closed"} /\ m.id = id
    \/ m = ServiceClosed(service[id])

EndIsComing(id) == \E m \in Range(Coming) : IsNews(m, id)

Accounted(id) ==
    \/ sub[id] \in {"registered", "failing", "removing"}
    \/ id \in active \cup pending
    \/ at = "ended" \/ id \in unheard
    \/ EndIsComing(id)

EntriesInv == HandIdle /\ \A id \in entries : Accounted(id)

LEMMA NewsStays ==
    ASSUME UiTypeOK, NEW ms \in Seq(Message), inbox' = Queued(ms), hand' = hand,
           NEW id, service'[id] = service[id]
    PROVE  /\ EndIsComing(id) => EndIsComing(id)'
           /\ \A m \in Range(ms) : IsNews(m, id) => EndIsComing(id)'
<1>1. Coming' = Coming \o ms /\ Coming \in Seq(Message)
  BY QueuedComes, ComingIs
<1>2. Range(Coming') = Range(Coming) \cup Range(ms)
  BY <1>1, RangeConcatenation
<1>3. \A m : IsNews(m, id)' <=> IsNews(m, id)
  BY DEF IsNews
<1>4. EndIsComing(id)' <=> \E m \in Range(Coming') : IsNews(m, id)
  BY <1>3 DEF EndIsComing
<1>5. QED
  BY <1>2, <1>4 DEF EndIsComing

(* A step after which id is as it was keeps it accounted for. *)
LEMMA AccountedStays ==
    ASSUME NEW id, Accounted(id), sub'[id] = sub[id],
           id \in active \cup pending => id \in active' \cup pending',
           at = "ended" => at' = "ended",
           id \in unheard => id \in active' \cup pending' \cup unheard',
           EndIsComing(id) => EndIsComing(id)'
    PROVE  Accounted(id)'
  BY DEF Accounted

LEMMA SubscribeKeepsAccounts ==
    ASSUME UiInv, EntriesInv, NEW id \in Ids, SubscribeStore(id)
    PROVE  EntriesInv'
<1>1. UNCHANGED <<at, hand, unheard>> /\ UiTypeOK /\ entries \subseteq Ids
  BY DEF SubscribeStore, Register, Ask, AskInVain, Enter, kernel, thread, UiInv, UiTypeOK
<1>2. sub \in [Ids -> Points]
  BY DEF UiInv, UiTypeOK
<1>3. ASSUME NEW i \in entries, i # id, Accounted(i)
      PROVE  Accounted(i)'
  <2>1. service'[i] = service[i] /\ sub'[i] = sub[i]
    BY <1>1, <1>2, <1>3 DEF SubscribeStore, Register, Goto, UiInv, UiTypeOK
  <2>2. active \cup pending \subseteq active' \cup pending'
    BY DEF SubscribeStore, Register, Ask, AskInVain, Enter, kernel
  <2>3. EndIsComing(i) => EndIsComing(i)'
    <3>1. CASE inbox' = inbox
      <4>1. Coming' = Coming
        BY <1>1, <3>1, NothingNewComes
      <4>2. QED
        BY <2>1, <4>1 DEF EndIsComing, IsNews
    <3>2. CASE /\ ValueMessage("Accepted", id, Current(id)) \in Message
               /\ inbox' = Queued(<<ValueMessage("Accepted", id, Current(id))>>)
      <4>1. <<ValueMessage("Accepted", id, Current(id))>> \in Seq(Message)
        BY <3>2
      <4>2. QED
        BY <1>1, <2>1, <3>2, <4>1, NewsStays
    <3>3. CASE sub[id] = "registered"
      BY <3>1, <3>2, <3>3, AskQueued
    <3>4. CASE sub[id] # "registered"
      BY <3>1, <3>4 DEF SubscribeStore, Register, kernel
    <3>5. QED
      BY <3>3, <3>4
  <2>4. QED
    BY <1>1, <1>3, <2>1, <2>2, <2>3, AccountedStays
<1>4. id \in entries' => Accounted(id)'
  <2>1. CASE Goto(id, "registered")
    BY <1>2, <2>1 DEF Goto, Accounted
  <2>2. CASE sub[id] = "registered"
    <3>1. sub'[id] = "failing" \/ sub'[id] = "held"
      BY <1>2, <2>2, SubscribeAsks
    <3>2. sub'[id] = "held" => id \in active' \cup pending'
      BY <2>2, AskQueued
    <3>3. QED
      BY <3>1, <3>2 DEF Accounted
  <2>3. CASE entries' = entries \ {id}
    BY <2>3
  <2>4. QED
    BY <2>1, <2>2, <2>3 DEF SubscribeStore
<1>5. \A i \in entries' : i \in entries \/ i = id
  BY DEF SubscribeStore, Register
<1>6. QED
  BY <1>1, <1>3, <1>4, <1>5 DEF EntriesInv, HandIdle

LEMMA UnsubscribeKeepsAccounts ==
    ASSUME UiInv, EntriesInv, NEW id \in Ids, Unsubscribe(id)
    PROVE  EntriesInv'
<1>1. UNCHANGED <<at, hand, inbox, service, pending, unheard>> /\ entries \subseteq Ids
  BY DEF Unsubscribe, thread, UiInv, UiTypeOK
<1>2. Coming' = Coming
  BY <1>1, NothingNewComes
<1>3. sub \in [Ids -> Points]
  BY DEF UiInv, UiTypeOK
<1>4. ASSUME NEW i \in entries, i # id, Accounted(i)
      PROVE  Accounted(i)'
  <2>1. sub'[i] = sub[i]
    BY <1>1, <1>3, <1>4 DEF Unsubscribe, Goto
  <2>2. i \in active => i \in active'
    BY <1>4 DEF Unsubscribe, Cancel
  <2>3. EndIsComing(i) => EndIsComing(i)'
    BY <1>1, <1>2 DEF EndIsComing, IsNews
  <2>4. QED
    BY <1>1, <1>4, <2>1, <2>2, <2>3, AccountedStays
<1>5. ASSUME id \in entries' PROVE Accounted(id)'
  <2>1. CASE Goto(id, "removing")
    BY <1>3, <2>1 DEF Goto, Accounted
  <2>2. CASE ~Referenced /\ sub[id] = "held" /\ UNCHANGED <<active, entries, cause>>
    <3>1. Accounted(id)
      BY <1>5, <2>2 DEF EntriesInv
    <3>2. id \in active \cup pending \/ at = "ended" \/ id \in unheard
          \/ EndIsComing(id)
      BY <2>2, <3>1 DEF Accounted
    <3>3. EndIsComing(id) => EndIsComing(id)'
      BY <1>1, <1>2 DEF EndIsComing, IsNews
    <3>4. QED
      BY <1>1, <2>2, <3>2, <3>3 DEF Accounted
  <2>3. CASE entries' = entries \ {id}
    BY <1>5, <2>3
  <2>4. QED
    BY <2>1, <2>2, <2>3 DEF Unsubscribe
<1>6. entries' \subseteq entries
  BY DEF Unsubscribe
<1>7. QED
  BY <1>1, <1>4, <1>5, <1>6 DEF EntriesInv, HandIdle

LEMMA VerdictKeepsAccounts ==
    ASSUME UiInv, EntriesInv, NEW id \in Ids, NEW accepted \in BOOLEAN, Verdict(id, accepted)
    PROVE  EntriesInv'
<1>1. /\ UNCHANGED <<at, hand, entries, service, sub>> /\ UiTypeOK
      /\ unheard \subseteq unheard'
  BY DEF Verdict, thread, threads, UiInv
<1>2. \A i : i \in active \cup pending /\ i \notin active' \cup pending' => i = id /\ ~accepted
  BY DEF Verdict
<1>3. CASE inbox' = inbox /\ unheard' = unheard \cup {id}
  <2>1. Coming' = Coming
    BY <1>1, <1>3, NothingNewComes
  <2>2. ASSUME NEW i \in entries, Accounted(i)
        PROVE  Accounted(i)'
    <3>1. EndIsComing(i) => EndIsComing(i)'
      BY <1>1, <2>1 DEF EndIsComing, IsNews
    <3>2. CASE i = id
      BY <1>3, <3>2 DEF Accounted
    <3>3. CASE i # id
      BY <1>1, <1>2, <2>2, <3>1, <3>3, AccountedStays
    <3>4. QED
      BY <3>2, <3>3
  <2>3. QED
    BY <1>1, <2>2 DEF EntriesInv, HandIdle
<1>4. CASE \E m \in Message : /\ inbox' = Queued(<<m>>)
                              /\ ~accepted => m = EndMessage("Rejected", id)
  <2>1. PICK m \in Message : /\ inbox' = Queued(<<m>>)
                             /\ ~accepted => m = EndMessage("Rejected", id)
    BY <1>4
  <2>2. <<m>> \in Seq(Message)
    OBVIOUS
  <2>3. m \in Range(<<m>>)
    <3>1. <<m>>[1] = m /\ 1 \in DOMAIN <<m>>
      OBVIOUS
    <3>2. QED
      BY <3>1 DEF Range
  <2>4. ASSUME NEW i \in entries, Accounted(i)
        PROVE  Accounted(i)'
    <3>1. EndIsComing(i) => EndIsComing(i)'
      BY <1>1, <2>1, <2>2, NewsStays
    <3>2. CASE i \in active \cup pending => i \in active' \cup pending'
      BY <1>1, <2>4, <3>1, <3>2, AccountedStays
    <3>3. CASE i \in active \cup pending /\ i \notin active' \cup pending'
      <4>1. i = id /\ ~accepted
        BY <1>2, <3>3
      <4>2. IsNews(m, i)
        BY <2>1, <4>1 DEF IsNews, EndMessage
      <4>3. EndIsComing(i)'
        BY <1>1, <2>1, <2>2, <2>3, <4>2, NewsStays
      <4>4. QED
        BY <4>3 DEF Accounted
    <3>4. QED
      BY <3>2, <3>3
  <2>5. QED
    BY <1>1, <2>4 DEF EntriesInv, HandIdle
<1>5. QED
  BY <1>3, <1>4, VerdictQueued

LEMMA CloseKeepsAccounts ==
    ASSUME UiInv, EntriesInv, NEW s \in Services, CloseService(s)
    PROVE  EntriesInv'
<1>1. UNCHANGED <<at, hand, entries, service, sub>> /\ UiTypeOK /\ entries \subseteq Ids
  BY DEF CloseService, thread, threads, UiInv, UiTypeOK
<1>2. /\ active' = active \ Followers(s)
      /\ \A i \in pending : i \in pending' \/ service[i] = s
      /\ unheard \subseteq unheard'
  BY DEF CloseService
<1>3. ASSUME NEW i \in entries, Accounted(i)
      PROVE  Accounted(i)'
  <2>1. EndIsComing(i) => EndIsComing(i)'
    <3>1. CASE inbox' = Nil /\ inbox = Nil
      <4>1. Coming' = Coming
        BY <1>1, <3>1, NothingNewComes
      <4>2. QED
        BY <1>1, <4>1 DEF EndIsComing, IsNews
    <3>2. CASE \E ms \in Seq(Message) : inbox' = Queued(ms)
      BY <1>1, <3>2, NewsStays
    <3>3. QED
      BY <3>1, <3>2, ClosingQueued
  <2>2. CASE i \in active \cup pending => i \in active' \cup pending'
    BY <1>1, <1>2, <1>3, <2>1, <2>2, AccountedStays
  <2>3. CASE i \in active \cup pending /\ i \notin active' \cup pending'
    <3>1. service[i] = s /\ (i \in Followers(s) \/ i \in pending)
      BY <1>2, <2>3 DEF Followers
    <3>2. CASE unheard' = unheard \cup {id \in active \cup pending : service[id] = s}
      BY <2>3, <3>1, <3>2 DEF Accounted
    <3>3. CASE \E ms \in Seq(Message) : inbox' = Queued(ms) /\ ServiceClosed(s) \in Range(ms)
      <4>1. PICK ms \in Seq(Message) : inbox' = Queued(ms) /\ ServiceClosed(s) \in Range(ms)
        BY <3>3
      <4>2. IsNews(ServiceClosed(s), i)
        BY <3>1 DEF IsNews
      <4>3. EndIsComing(i)'
        BY <1>1, <4>1, <4>2, NewsStays
      <4>4. QED
        BY <4>3 DEF Accounted
    <3>4. QED
      BY <3>2, <3>3, ClosingQueued
  <2>4. QED
    BY <2>2, <2>3
<1>4. QED
  BY <1>1, <1>3 DEF EntriesInv, HandIdle

-----------------------------------------------------------------------------
(* What the dispatcher does to what is coming *)
LEMMA HeadAndTail ==
    ASSUME NEW s \in Seq(Message), s # <<>>
    PROVE  <<Head(s)>> \o Tail(s) = s
<1>1. PICK h, t : h = Head(s) /\ t = Tail(s)
  OBVIOUS
<1>2. /\ h \in Message /\ h = s[1] /\ t \in Seq(Message)
      /\ Len(s) \in Nat \ {0} /\ Len(t) = Len(s) - 1
      /\ \A i \in 1 .. Len(t) : t[i] = s[i + 1]
  BY <1>1, HeadTailProperties, EmptySeq
<1>3. <<h>> \in Seq(Message) /\ Len(<<h>>) = 1 /\ <<h>>[1] = h
  BY <1>2
<1>4. PICK r : r = <<h>> \o t
  OBVIOUS
<1>5. /\ r \in Seq(Message) /\ Len(r) = 1 + Len(t)
      /\ \A i \in 1 .. 1 + Len(t) : r[i] = IF i <= 1 THEN <<h>>[i] ELSE t[i - 1]
  BY <1>2, <1>3, <1>4, ConcatProperties
<1>6. Len(r) = Len(s)
  BY <1>2, <1>5
<1>7. ASSUME NEW i \in 1 .. Len(s)
      PROVE  r[i] = s[i]
  <2>1. CASE i = 1
    BY <1>2, <1>3, <1>5, <2>1
  <2>2. CASE i # 1
    <3>1. i - 1 \in 1 .. Len(t) /\ (i - 1) + 1 = i /\ i \in 1 .. 1 + Len(t) /\ ~(i <= 1)
      BY <1>2, <2>2
    <3>2. r[i] = t[i - 1] /\ t[i - 1] = s[i]
      BY <1>2, <1>5, <3>1
    <3>3. QED
      BY <3>2
  <2>3. QED
    BY <2>1, <2>2
<1>8. r = s
  BY <1>5, <1>6, <1>7, SeqEqual
<1>9. QED
  BY <1>1, <1>4, <1>8

LEMMA FetchKeepsComing ==
    ASSUME UiInv, HandIdle, Fetch, at' # "ended"
    PROVE  Coming' = Coming /\ (at' = "sleeping" => hand' = Nil)
<1>1. UiTypeOK /\ hand = Nil /\ inbox \in Seq(Message) \cup {Nil}
  BY DEF Fetch, HandIdle, UiInv, UiTypeOK
<1>2. Coming = InHand \o Unfetched /\ InHand = <<>> /\ Unfetched \in Seq(Message)
      /\ Queued(<<>>) = Unfetched
  BY <1>1, ComingIs DEF InHand
<1>3. Coming = Unfetched
  BY <1>2, ConcatEmptySeq
<1>4. CASE HasMessage /\ inbox' = Tail(inbox) /\ Move("dispatching", Head(inbox))
  <2>1. inbox \in Seq(Message) /\ inbox # <<>> /\ Unfetched = inbox
    BY <1>1, <1>4 DEF HasMessage, Unfetched
  <2>2. /\ Head(inbox) \in Message /\ Tail(inbox) \in Seq(Message)
        /\ Len(Tail(inbox)) = Len(inbox) - 1
        /\ \A i \in 1 .. Len(Tail(inbox)) : Tail(inbox)[i] = inbox[i + 1]
    BY <2>1, HeadTailProperties
  <2>3. hand' = Head(inbox) /\ hand' # Nil /\ inbox' # Nil
    BY <1>4, <2>2, NilAssumption DEF Move
  <2>4. Coming' = <<Head(inbox)>> \o (Tail(inbox) \o <<>>)
    BY <1>4, <2>3 DEF Coming, Queued
  <2>5. Tail(inbox) \o <<>> = Tail(inbox)
    BY <2>2, ConcatEmptySeq
  <2>6. <<Head(inbox)>> \o Tail(inbox) = inbox
    BY <2>1, HeadAndTail
  <2>7. QED
    BY <1>3, <1>4, <2>1, <2>4, <2>5, <2>6 DEF Move
<1>5. CASE inbox' = Queued(<<>>) /\ Move("sleeping", Nil)
  <2>1. inbox' = Unfetched /\ hand' = Nil
    BY <1>2, <1>5 DEF Move
  <2>2. Coming' = <<>> \o (Unfetched \o <<>>)
    <3>1. inbox' # Nil
      BY <1>2, <2>1, NilAssumption
    <3>2. QED
      BY <2>1, <3>1 DEF Coming, Queued
  <2>3. QED
    BY <1>2, <1>3, <2>1, <2>2, ConcatEmptySeq
<1>6. QED
  BY <1>4, <1>5 DEF Fetch, Move

(* When the hand is emptied its message is gone, and no other. *)
LEMMA HeadLeaves ==
    ASSUME UiTypeOK, hand # Nil, hand' = Nil, inbox' = inbox
    PROVE  Coming = <<hand>> \o Coming' /\ Coming' \in Seq(Message) /\ hand \in Message
<1>1. /\ InHand = <<hand>> /\ Coming = InHand \o Unfetched /\ Unfetched \in Seq(Message)
      /\ Queued(<<>>) = Unfetched
  BY ComingIs DEF InHand
<1>2. Coming' = <<>> \o Queued(<<>>)
  BY DEF Coming, Queued
<1>3. Coming' = Unfetched
  BY <1>1, <1>2, ConcatEmptySeq
<1>4. hand \in Message
  BY DEF UiTypeOK
<1>5. QED
  BY <1>1, <1>3, <1>4

LEMMA RestOfNews ==
    ASSUME NEW h \in Message, NEW q \in Seq(Message)
    PROVE  \A m : m \in Range(<<h>> \o q) <=> m = h \/ m \in Range(q)
<1>1. <<h>> \in Seq(Message)
  OBVIOUS
<1>2. Range(<<h>> \o q) = Range(<<h>>) \cup Range(q)
  BY <1>1, RangeConcatenation, Zenon
<1>3. DOMAIN <<h>> = 1 .. 1 /\ <<h>>[1] = h
  OBVIOUS
<1>4. \A m : m \in Range(<<h>>) <=> m = h
  BY <1>3 DEF Range
<1>5. QED
  BY <1>2, <1>4

LEMMA DispatcherKeepsAccounts == UiInv /\ EntriesInv /\ DispatcherStep => EntriesInv'
<1> SUFFICES ASSUME UiInv, EntriesInv, DispatcherStep PROVE EntriesInv'
  OBVIOUS
<1>1. /\ UNCHANGED <<active, pending, unheard, service, sub>> /\ UiTypeOK
      /\ entries' \subseteq entries
  BY DEF DispatcherStep, Upgrade, Fetch, Wake, Dispatch, Send, kernel, threads, UiInv
<1>2. entries \subseteq Ids
  BY DEF UiInv, UiTypeOK
<1>3. HandIdle'
  BY FetchKeepsComing
     DEF DispatcherStep, Upgrade, Fetch, Wake, Dispatch, Send, Move, EntriesInv, HandIdle
<1>4. at = "ended" => at' = "ended"
  BY DEF DispatcherStep, Upgrade, Fetch, Wake, Dispatch, Send
<1>5. ASSUME NEW id \in entries', at' # "ended", EndIsComing(id)
      PROVE  EndIsComing(id)'
  <2>1. \A m : IsNews(m, id)' <=> IsNews(m, id)
    BY <1>1 DEF IsNews
  <2>2. CASE Coming' = Coming
    BY <1>5, <2>1, <2>2 DEF EndIsComing
  <2>3. CASE UNCHANGED <<inbox, hand>>
    BY <2>2, <2>3, NothingNewComes
  <2>4. CASE Fetch
    BY <1>5, <2>2, <2>4, FetchKeepsComing DEF EntriesInv
  <2>5. CASE (Dispatch \/ Send) /\ hand' = Nil
    <3>1. /\ hand \in Message /\ inbox' = inbox /\ hand # Nil
          /\ at = "sending" => HasValue(hand)
      BY <2>5, NilAssumption DEF Dispatch, Send, kernel, UiInv, HandInv
    <3>2. Coming = <<hand>> \o Coming' /\ Coming' \in Seq(Message)
      BY <1>1, <2>5, <3>1, HeadLeaves
    <3>3. ~IsNews(hand, id)
      <4>1. CASE Send
        BY <3>1, <4>1 DEF Send, HasValue, IsNews, ServiceClosed
      <4>2. CASE Dispatch
        <5>1. entries' = entries \ Ended(hand)
          BY <4>2 DEF Dispatch
        <5>2. CASE hand.type \in {"Rejected", "Closed"}
          BY <1>1, <1>5, <5>1, <5>2 DEF Ended, IsNews, ServiceClosed
        <5>3. CASE hand = ServiceClosed(service[id])
          <6>1. hand.type = "ServiceClosed" /\ hand.service = service[id]
            BY <5>3 DEF ServiceClosed
          <6>2. Ended(hand) = {i \in entries : service[i] = hand.service}
            BY <6>1 DEF Ended
          <6>3. QED
            BY <1>1, <1>5, <5>1, <6>1, <6>2
        <5>4. QED
          BY <5>2, <5>3 DEF IsNews
      <4>3. QED
        BY <2>5, <4>1, <4>2
    <3>4. \A m : m \in Range(Coming) <=> m = hand \/ m \in Range(Coming')
      BY <3>1, <3>2, RestOfNews
    <3>5. QED
      BY <1>5, <2>1, <3>3, <3>4 DEF EndIsComing
  <2>6. CASE Upgrade \/ Wake
    <3>1. hand = Nil /\ hand' = Nil /\ inbox' = inbox
      BY <2>6 DEF Upgrade, Wake, Move, kernel, EntriesInv, HandIdle
    <3>2. QED
      BY <2>3, <3>1
  <2>7. CASE Dispatch /\ hand' = hand
    BY <2>3, <2>7 DEF Dispatch, kernel
  <2>8. QED
    BY <2>4, <2>5, <2>6, <2>7 DEF DispatcherStep, Dispatch, Send, Move
<1>6. ASSUME NEW id \in entries'
      PROVE  Accounted(id)'
  <2>1. Accounted(id) /\ id \in Ids
    BY <1>1, <1>2, <1>6 DEF EntriesInv
  <2>2. CASE at' = "ended"
    BY <2>2 DEF Accounted
  <2>3. CASE at' # "ended"
    <3>1. EndIsComing(id) => EndIsComing(id)'
      BY <1>5, <1>6, <2>3
    <3>2. QED
      BY <1>1, <1>4, <1>6, <2>1, <3>1, AccountedStays
  <2>4. QED
    BY <2>2, <2>3
<1>7. QED
  BY <1>3, <1>6 DEF EntriesInv

LEMMA StepAccounts == UiInv /\ EntriesInv /\ [Next]_vars => EntriesInv'
<1> SUFFICES ASSUME UiInv, EntriesInv, [Next]_vars PROVE EntriesInv'
  OBVIOUS
<1>1. CASE /\ UNCHANGED <<active, pending, at, hand, entries, service, sub>>
           /\ \A id \in unheard : id \in active \/ id \in unheard'
           /\ inbox' = inbox \/ \E ms \in Seq(Message) : inbox' = Queued(ms)
  <2>1. ASSUME NEW id \in entries
        PROVE  EndIsComing(id) => EndIsComing(id)'
    <3>1. CASE inbox' = inbox
      BY <1>1, <3>1, NothingNewComes DEF EndIsComing, IsNews
    <3>2. CASE \E ms \in Seq(Message) : inbox' = Queued(ms)
      BY <1>1, <3>2, NewsStays DEF UiInv
    <3>3. QED
      BY <1>1, <3>1, <3>2
  <2>2. \A id \in entries : Accounted(id)'
    BY <1>1, <2>1, AccountedStays DEF EntriesInv
  <2>3. QED
    BY <1>1, <2>2 DEF EntriesInv, HandIdle
<1>2. CASE \E s \in Services : UpdateStore(s)
  <2>1. PICK s \in Services : UpdateStore(s)
    BY <1>2
  <2>2. /\ UNCHANGED <<active, pending, at, hand, entries, service, sub>>
        /\ \A id \in unheard : id \in active \/ id \in unheard'
    BY <2>1 DEF UpdateStore, Followers, thread, threads
  <2>3. QED
    BY <1>1, <2>1, <2>2, UpdatesQueued
<1>3. CASE \/ \E s \in Services, public \in Visibilities : CreateStore(s, public)
           \/ DropHandle \/ UNCHANGED vars
  BY <1>1, <1>3 DEF CreateStore, DropHandle, vars, kernel, thread, threads
<1>4. CASE Disconnect
  BY <1>4 DEF Disconnect, EntriesInv, HandIdle, thread
<1>5. CASE WaitFails
  BY <1>5 DEF WaitFails, Move, EntriesInv, HandIdle, Accounted
<1>6. QED
  BY <1>2, <1>3, <1>4, <1>5, SubscribeKeepsAccounts, UnsubscribeKeepsAccounts,
     VerdictKeepsAccounts, CloseKeepsAccounts, DispatcherKeepsAccounts DEF Next

(* No entry stays in the map for a subscription that has ended and of      *)
(* whose end nothing is on its way, but for those that were never told: who *)
(* waited for a verdict before there was an inbox, or whose news found no  *)
(* memory.                                                                 *)
THEOREM NoEntryIsForgotten == Spec => []NoDeadEntries
<1>1. UiInv /\ EntriesInv => NoDeadEntries
  BY DEF EntriesInv, NoDeadEntries, Accounted, EndIsComing, IsNews
<1>2. Init => UiInv /\ EntriesInv
  BY InitInv DEF Init, EntriesInv, HandIdle
<1>3. UiInv /\ EntriesInv /\ [Next]_vars => UiInv' /\ EntriesInv'
  BY StepInv, StepAccounts
<1>4. QED
  BY <1>1, <1>2, <1>3, PTL DEF Spec

-----------------------------------------------------------------------------
(* What a component sees.  The last value in a sequence of messages, and   *)
(* what appending to the sequence and taking its head do to it.            *)
Holds(q, id) == \E i \in DOMAIN q : IsValue(q[i], id)

EndsIn(q, id, v) ==
    \E last \in DOMAIN q :
        /\ IsValue(q[last], id) /\ q[last].value = v
        /\ \A i \in DOMAIN q : IsValue(q[i], id) => i <= last

LEMMA LastOfConcat ==
    ASSUME NEW s \in Seq(Message), NEW t \in Seq(Message), NEW id, NEW v
    PROVE  /\ ~Holds(t, id) /\ Holds(s \o t, id) => Holds(s, id)
           /\ ~Holds(t, id) /\ EndsIn(s, id, v) => EndsIn(s \o t, id, v)
           /\ EndsIn(t, id, v) => EndsIn(s \o t, id, v)
<1>1. PICK r : r = s \o t
  OBVIOUS
<1>2. PICK m, n : m = Len(s) /\ n = Len(t)
  OBVIOUS
<1>3. /\ m \in Nat /\ n \in Nat /\ DOMAIN s = 1 .. m /\ DOMAIN t = 1 .. n
      /\ r \in Seq(Message) /\ Len(r) = m + n
      /\ \A i \in 1 .. m + n : r[i] = IF i <= m THEN s[i] ELSE t[i - m]
  BY <1>1, <1>2, ConcatProperties, LenProperties
<1>4. DOMAIN r = 1 .. m + n
  BY <1>3, LenProperties
<1>5. \A i \in 1 .. m : i \in 1 .. m + n /\ r[i] = s[i]
  BY <1>3
<1>6. \A i \in 1 .. n : m + i \in 1 .. m + n /\ r[m + i] = t[i]
  <2>1. ASSUME NEW i \in 1 .. n
        PROVE  m + i \in 1 .. m + n /\ r[m + i] = t[i]
    <3>1. PICK k : k = m + i
      OBVIOUS
    <3>2. k \in 1 .. m + n /\ ~(k <= m) /\ k - m = i
      BY <1>3, <3>1
    <3>3. r[k] = t[k - m]
      BY <1>3, <3>2
    <3>4. QED
      BY <3>1, <3>2, <3>3
  <2>2. QED
    BY <2>1
<1>7. \A i \in 1 .. m + n :
          \/ i \in 1 .. m /\ r[i] = s[i]
          \/ i > m /\ \E j \in 1 .. n : i = m + j /\ r[i] = t[j]
  <2>1. ASSUME NEW i \in 1 .. m + n, i > m
        PROVE  \E j \in 1 .. n : i = m + j /\ r[i] = t[j]
    <3>1. PICK j : j = i - m
      OBVIOUS
    <3>2. j \in 1 .. n /\ i = m + j
      BY <1>3, <2>1, <3>1
    <3>3. QED
      BY <1>6, <3>2
  <2>2. \A i \in 1 .. m + n : i \in 1 .. m \/ i > m
    BY <1>3
  <2>3. QED
    BY <1>5, <2>1, <2>2
<1>8. ~Holds(t, id) /\ Holds(r, id) => Holds(s, id)
  BY <1>3, <1>4, <1>7 DEF Holds
<1>9. ASSUME ~Holds(t, id), EndsIn(s, id, v) PROVE EndsIn(r, id, v)
  <2>1. PICK k \in 1 .. m : /\ IsValue(s[k], id) /\ s[k].value = v
                            /\ \A i \in 1 .. m : IsValue(s[i], id) => i <= k
    BY <1>3, <1>9 DEF EndsIn
  <2>2. \A i \in 1 .. m + n : IsValue(r[i], id) => i \in 1 .. m /\ r[i] = s[i]
    BY <1>3, <1>7, <1>9 DEF Holds
  <2>3. k \in 1 .. m + n /\ r[k] = s[k]
    BY <1>5
  <2>4. QED
    BY <1>4, <2>1, <2>2, <2>3 DEF EndsIn
<1>10. ASSUME EndsIn(t, id, v) PROVE EndsIn(r, id, v)
  <2>1. PICK k \in 1 .. n : /\ IsValue(t[k], id) /\ t[k].value = v
                            /\ \A i \in 1 .. n : IsValue(t[i], id) => i <= k
    BY <1>3, <1>10 DEF EndsIn
  <2>2. PICK l : l = m + k
    OBVIOUS
  <2>3. l \in 1 .. m + n /\ r[l] = t[k]
    BY <1>6, <2>2
  <2>4. ASSUME NEW i \in 1 .. m + n, IsValue(r[i], id)
        PROVE  i <= l
    <3>1. CASE i \in 1 .. m
      BY <1>3, <2>2, <3>1
    <3>2. CASE \E j \in 1 .. n : i = m + j /\ r[i] = t[j]
      <4>1. PICK j \in 1 .. n : i = m + j /\ r[i] = t[j]
        BY <3>2
      <4>2. j <= k
        BY <2>1, <2>4, <4>1
      <4>3. QED
        BY <1>3, <2>2, <4>1, <4>2
    <3>3. QED
      BY <1>7, <3>1, <3>2
  <2>5. QED
    BY <1>4, <2>1, <2>3, <2>4 DEF EndsIn
<1>11. QED
  BY <1>1, <1>8, <1>9, <1>10

LEMMA LastAfterHead ==
    ASSUME NEW h \in Message, NEW t \in Seq(Message), NEW id, NEW v
    PROVE  /\ Holds(t, id) => Holds(<<h>> \o t, id)
           /\ IsValue(h, id) => Holds(<<h>> \o t, id)
           /\ EndsIn(<<h>> \o t, id, v) =>
                 \/ EndsIn(t, id, v)
                 \/ ~Holds(t, id) /\ IsValue(h, id) /\ h.value = v
<1>1. PICK r : r = <<h>> \o t
  OBVIOUS
<1>2. PICK n : n = Len(t)
  OBVIOUS
<1>3. <<h>> \in Seq(Message) /\ Len(<<h>>) = 1 /\ <<h>>[1] = h
  OBVIOUS
<1>4. /\ n \in Nat /\ DOMAIN t = 1 .. n /\ r \in Seq(Message) /\ Len(r) = 1 + n
      /\ \A i \in 1 .. 1 + n : r[i] = IF i <= 1 THEN <<h>>[i] ELSE t[i - 1]
  BY <1>1, <1>2, <1>3, ConcatProperties, LenProperties
<1>5. DOMAIN r = 1 .. 1 + n
  BY <1>4, LenProperties
<1>6. 1 \in 1 .. 1 + n /\ r[1] = h
  BY <1>3, <1>4
<1>7. ASSUME NEW i \in 1 .. n
      PROVE  1 + i \in 1 .. 1 + n /\ r[1 + i] = t[i]
  <2>1. PICK k : k = 1 + i
    OBVIOUS
  <2>2. k \in 1 .. 1 + n /\ ~(k <= 1) /\ k - 1 = i
    BY <1>4, <2>1
  <2>3. r[k] = t[k - 1]
    BY <1>4, <2>2
  <2>4. QED
    BY <2>1, <2>2, <2>3
<1>8. Holds(t, id) => Holds(r, id)
  BY <1>4, <1>5, <1>7 DEF Holds
<1>9. IsValue(h, id) => Holds(r, id)
  BY <1>5, <1>6 DEF Holds
<1>10. ASSUME EndsIn(r, id, v)
       PROVE  EndsIn(t, id, v) \/ (~Holds(t, id) /\ IsValue(h, id) /\ h.value = v)
  <2>1. PICK k \in 1 .. 1 + n : /\ IsValue(r[k], id) /\ r[k].value = v
                                /\ \A i \in 1 .. 1 + n : IsValue(r[i], id) => i <= k
    BY <1>5, <1>10 DEF EndsIn
  <2>2. ASSUME NEW i \in 1 .. n, IsValue(t[i], id)
        PROVE  1 + i <= k
    BY <1>7, <2>1, <2>2
  <2>3. CASE k = 1
    <3>1. ~Holds(t, id)
      BY <1>4, <2>2, <2>3 DEF Holds
    <3>2. QED
      BY <1>6, <2>1, <2>3, <3>1
  <2>4. CASE k # 1
    <3>1. PICK l : l = k - 1
      OBVIOUS
    <3>2. l \in 1 .. n /\ k = 1 + l
      BY <1>4, <2>4, <3>1
    <3>3. IsValue(t[l], id) /\ t[l].value = v
      BY <1>7, <2>1, <3>2
    <3>4. \A i \in 1 .. n : IsValue(t[i], id) => i <= l
      BY <1>4, <2>2, <3>2
    <3>5. QED
      BY <1>4, <3>2, <3>3, <3>4 DEF EndsIn
  <2>5. QED
    BY <2>3, <2>4
<1>11. QED
  BY <1>1, <1>8, <1>9, <1>10

(* ShownIsCurrent is inductive, with the hand empty between two messages.  *)
UpToDate(id) ==
    \/ ~Holds(Coming, id) /\ shown[id] = Current(id)
    \/ EndsIn(Coming, id, Current(id))

Kept(id) == Followed(id) /\ at # "ended" /\ id \notin unheard

CurrentInv == HandIdle /\ \A id \in Ids : Kept(id) => UpToDate(id)

LEMMA UpToDateIsCurrent ==
    ASSUME NEW id
    PROVE  UpToDate(id) <=>
              \/ ValuesComing(id) = {} /\ Current(id) = shown[id]
              \/ \E last \in ValuesComing(id) :
                    /\ \A i \in ValuesComing(id) : i <= last
                    /\ Current(id) = Coming[last].value
<1>1. PICK q, v, w : q = Coming /\ v = Current(id) /\ w = shown[id]
  OBVIOUS
<1>2. ValuesComing(id) = {i \in DOMAIN q : IsValue(q[i], id)}
  BY <1>1 DEF ValuesComing
<1>3. ValuesComing(id) = {} <=> ~Holds(q, id)
  BY <1>2 DEF Holds
<1>4. EndsIn(q, id, v) <=>
          \E last \in ValuesComing(id) :
              /\ \A i \in ValuesComing(id) : i <= last
              /\ v = q[last].value
  BY <1>2 DEF EndsIn
<1>5. QED
  BY <1>1, <1>3, <1>4 DEF UpToDate

(* A step of the kernel that appends no value for id *)
LEMMA OtherNewsComes ==
    ASSUME UiTypeOK, UNCHANGED <<hand, shown>>, NEW id, UpToDate(id), Current(id)' = Current(id),
           \/ inbox' = inbox
           \/ \E ms \in Seq(Message) : inbox' = Queued(ms) /\ ~Holds(ms, id)
    PROVE  UpToDate(id)'
<1>1. CASE inbox' = inbox
  <2>1. Coming' = Coming
    BY <1>1, NothingNewComes
  <2>2. QED
    BY <2>1 DEF UpToDate
<1>2. CASE \E ms \in Seq(Message) : inbox' = Queued(ms) /\ ~Holds(ms, id)
  <2>1. PICK ms \in Seq(Message) : inbox' = Queued(ms) /\ ~Holds(ms, id)
    BY <1>2
  <2>2. Coming' = Coming \o ms /\ Coming \in Seq(Message)
    BY <2>1, QueuedComes, ComingIs
  <2>3. /\ Holds(Coming', id) => Holds(Coming, id)
        /\ \A v : EndsIn(Coming, id, v) => EndsIn(Coming', id, v)
    BY <2>1, <2>2, LastOfConcat
  <2>4. QED
    BY <2>3 DEF UpToDate
<1>3. QED
  BY <1>1, <1>2

(* A step of the kernel that appends the current value for id *)
LEMMA NewValueComes ==
    ASSUME UiTypeOK, UNCHANGED hand, NEW id, NEW ms \in Seq(Message), inbox' = Queued(ms),
           EndsIn(ms, id, Current(id)')
    PROVE  UpToDate(id)'
<1>1. Coming' = Coming \o ms /\ Coming \in Seq(Message)
  BY QueuedComes, ComingIs
<1>2. EndsIn(Coming', id, Current(id)')
  BY <1>1, LastOfConcat
<1>3. QED
  BY <1>2 DEF UpToDate

LEMMA OneMessage ==
    ASSUME NEW m \in Message, NEW id
    PROVE  /\ <<m>> \in Seq(Message)
           /\ ~IsValue(m, id) => ~Holds(<<m>>, id)
           /\ IsValue(m, id) => EndsIn(<<m>>, id, m.value)
<1>1. <<m>> \in Seq(Message) /\ <<m>>[1] = m
  OBVIOUS
<1>2. \A i : i \in DOMAIN <<m>> <=> i = 1
  OBVIOUS
<1>3. QED
  BY <1>1, <1>2 DEF Holds, EndsIn

LEMMA MessagesAsValues ==
    ASSUME NEW type, NEW i, NEW v, NEW id, NEW s
    PROVE  /\ IsValue(ValueMessage(type, i, v), id) <=> type \in {"Accepted", "Updated"} /\ i = id
           /\ ValueMessage(type, i, v).value = v
           /\ ~IsValue(EndMessage("Rejected", i), id)
           /\ ~IsValue(EndMessage("Closed", i), id)
           /\ ~IsValue(ServiceClosed(s), id)
  BY DEF IsValue, ValueMessage, EndMessage, ServiceClosed

LEMMA UpdateKeepsCurrent ==
    ASSUME UiInv, CurrentInv, NEW s \in Services, UpdateStore(s)
    PROVE  CurrentInv'
<1>1. UNCHANGED <<at, hand, shown, entries, active, service, sub>> /\ UiTypeOK
  BY DEF UpdateStore, thread, threads, UiInv
<1>2. /\ store' = [store EXCEPT ![s].value = lastWrite'] /\ store[s] # Nil
      /\ store \in [Services -> StoreValue \cup {Nil}]
  BY DEF UpdateStore, UiInv, UiTypeOK, StoreValue
<1>3. /\ store'[s].value = lastWrite'
      /\ \A r \in Services \ {s} : store'[r] = store[r]
  BY <1>2 DEF StoreValue
<1>4. PICK told \in SUBSET Followers(s), ms \in Seq(Message) :
          /\ unheard' = (unheard \ told) \cup (Followers(s) \ told)
          /\ inbox' = Queued(ms) \/ (inbox' = inbox /\ ms = <<>>)
          /\ \A i \in DOMAIN ms :
                \E id \in told : ms[i] = ValueMessage("Updated", id, lastWrite')
          /\ \A id \in told :
                \E i \in DOMAIN ms : ms[i] = ValueMessage("Updated", id, lastWrite')
          /\ \A i, j \in DOMAIN ms : ms[i] = ms[j] => i = j
  BY UpdatesQueued
<1>5. ASSUME NEW i \in DOMAIN ms, NEW id, IsValue(ms[i], id)
      PROVE  service[id] = s /\ ms[i] = ValueMessage("Updated", id, lastWrite')
  <2>1. PICK x \in told : ms[i] = ValueMessage("Updated", x, lastWrite')
    BY <1>4
  <2>2. x = id
    BY <1>5, <2>1 DEF IsValue, ValueMessage
  <2>3. QED
    BY <2>1, <2>2 DEF Followers
<1>6. ASSUME NEW id \in Ids, Kept(id)'
      PROVE  UpToDate(id)'
  <2>1. Followed(id) /\ at # "ended" /\ service[id] \in Services
    BY <1>1, <1>6 DEF Kept, Followed, UiInv, Anchored
  <2>2. service[id] = s => id \in told
    BY <1>4, <1>6, <2>1 DEF Kept, Followed, Followers
  <2>3. CASE service[id] # s
    <3>1. id \notin told /\ ~Holds(ms, id)
      BY <1>5, <2>3 DEF Holds, Followers
    <3>2. UpToDate(id)
      BY <1>4, <1>6, <2>1, <3>1 DEF Kept, CurrentInv
    <3>3. Current(id)' = Current(id)
      BY <1>1, <1>3, <2>1, <2>3 DEF Current
    <3>4. QED
      BY <1>1, <1>4, <3>1, <3>3, <3>2, OtherNewsComes
  <2>4. CASE service[id] = s
    <3>1. id \in told
      BY <2>2, <2>4
    <3>2. PICK i \in DOMAIN ms : ms[i] = ValueMessage("Updated", id, lastWrite')
      BY <1>4, <3>1
    <3>3. \A j \in DOMAIN ms : IsValue(ms[j], id) => j = i
      BY <1>4, <1>5, <3>2
    <3>4. Current(id)' = lastWrite'
      BY <1>1, <1>3, <2>4 DEF Current
    <3>5. i \in Int
      BY LenProperties
    <3>6. IsValue(ms[i], id) /\ ms[i].value = Current(id)'
      BY <3>2, <3>4, MessagesAsValues
    <3>7. \A j \in DOMAIN ms : IsValue(ms[j], id) => j <= i
      BY <3>3, <3>5
    <3>8. EndsIn(ms, id, Current(id)')
      BY <3>6, <3>7 DEF EndsIn
    <3>9. inbox' = Queued(ms)
      BY <1>4, <3>2
    <3>10. QED
      BY <1>1, <3>8, <3>9, NewValueComes
  <2>5. QED
    BY <2>3, <2>4
<1>7. QED
  BY <1>1, <1>6 DEF CurrentInv, HandIdle

LEMMA VerdictKeepsCurrent ==
    ASSUME UiInv, CurrentInv, NEW i \in Ids, NEW accepted \in BOOLEAN, Verdict(i, accepted)
    PROVE  CurrentInv'
<1>1. UNCHANGED <<at, hand, shown, entries, service, sub, store>> /\ UiTypeOK
  BY DEF Verdict, thread, threads, UiInv
<1>2. \A id : Current(id)' = Current(id)
  BY <1>1 DEF Current
<1>3. CASE inbox' = inbox /\ unheard' = unheard \cup {i}
  <2>1. \A id \in Ids : Kept(id)' => Kept(id)
    BY <1>1, <1>3 DEF Kept, Followed, Verdict
  <2>2. \A id \in Ids : Kept(id)' => UpToDate(id)'
    BY <1>1, <1>2, <1>3, <2>1, OtherNewsComes DEF CurrentInv
  <2>3. QED
    BY <1>1, <2>2 DEF CurrentInv, HandIdle
<1>4. CASE /\ unheard' = unheard
           /\ \E m \in Message :
                 /\ inbox' = Queued(<<m>>)
                 /\ accepted => m = ValueMessage("Accepted", i, Current(i))
                 /\ ~accepted => m = EndMessage("Rejected", i)
  <2>1. PICK m \in Message :
            /\ inbox' = Queued(<<m>>)
            /\ accepted => m = ValueMessage("Accepted", i, Current(i))
            /\ ~accepted => m = EndMessage("Rejected", i)
    BY <1>4
  <2>2. \A id \in Ids : IsValue(m, id) => id = i /\ accepted
    BY <2>1, MessagesAsValues
  <2>3. ASSUME NEW id \in Ids, Kept(id)'
        PROVE  UpToDate(id)'
    <3>1. CASE id = i /\ accepted
      <4>1. IsValue(m, id) /\ m.value = Current(id)
        BY <2>1, <3>1, MessagesAsValues
      <4>2. <<m>> \in Seq(Message) /\ EndsIn(<<m>>, id, Current(id)')
        BY <1>2, <4>1, OneMessage
      <4>3. QED
        BY <1>1, <2>1, <4>2, NewValueComes
    <3>2. CASE ~(id = i /\ accepted)
      <4>1. <<m>> \in Seq(Message) /\ ~Holds(<<m>>, id)
        BY <2>2, <3>2, OneMessage
      <4>2. id \in active
        BY <2>3, <3>2 DEF Kept, Followed, Verdict
      <4>3. UpToDate(id)
        BY <1>1, <1>4, <2>3, <4>2 DEF Kept, Followed, CurrentInv
      <4>4. QED
        BY <1>1, <1>2, <2>1, <4>1, <4>3, OtherNewsComes
    <3>3. QED
      BY <3>1, <3>2
  <2>4. QED
    BY <1>1, <2>3 DEF CurrentInv, HandIdle
<1>5. QED
  BY <1>3, <1>4, VerdictQueued

LEMMA CloseKeepsCurrent ==
    ASSUME UiInv, CurrentInv, NEW s \in Services, CloseService(s)
    PROVE  CurrentInv'
<1>1. UNCHANGED <<at, hand, shown, entries, service, sub>> /\ UiTypeOK
  BY DEF CloseService, thread, threads, UiInv
<1>2. /\ \A r \in Services \ {s} : store'[r] = store[r]
      /\ active' = active \ Followers(s)
      /\ unheard \subseteq unheard'
  BY DEF CloseService, UiInv, UiTypeOK
<1>3. \/ inbox' = inbox
      \/ \E ms \in Seq(Message) : inbox' = Queued(ms) /\ \A id \in Ids : ~Holds(ms, id)
  <2>1. \A m : m.type \in {"Closed", "ServiceClosed"} => \A id : ~IsValue(m, id)
    BY DEF IsValue
  <2>2. \A ms : (\A m \in Range(ms) : m.type \in {"Closed", "ServiceClosed"})
                   => \A id \in Ids : ~Holds(ms, id)
    BY <2>1 DEF Holds, Range
  <2>3. QED
    BY <2>2, ClosingQueued
<1>4. ASSUME NEW id \in Ids, Kept(id)'
      PROVE  UpToDate(id)'
  <2>1. Kept(id) /\ service[id] \in Services \ {s}
    BY <1>1, <1>2, <1>4 DEF Kept, Followed, Followers, UiInv, Anchored
  <2>2. UpToDate(id) /\ Current(id)' = Current(id)
    BY <1>1, <1>2, <2>1 DEF CurrentInv, Current
  <2>3. QED
    BY <1>1, <1>3, <2>2, OtherNewsComes
<1>5. QED
  BY <1>1, <1>4 DEF CurrentInv, HandIdle

LEMMA SubscribeKeepsCurrent ==
    ASSUME UiInv, CurrentInv, NEW i \in Ids, SubscribeStore(i)
    PROVE  CurrentInv'
<1>1. UNCHANGED <<at, hand, shown, store, unheard>> /\ UiTypeOK
  BY DEF SubscribeStore, Register, Ask, AskInVain, Enter, kernel, thread, UiInv
<1>2. sub \in [Ids -> Points]
  BY DEF UiInv, UiTypeOK
<1>3. \A id \in Ids \ {i} : sub'[id] = sub[id] /\ service'[id] = service[id]
  BY <1>2 DEF SubscribeStore, Register, Goto, UiInv, UiTypeOK
<1>4. \/ inbox' = inbox
      \/ /\ ValueMessage("Accepted", i, Current(i)) \in Message
         /\ inbox' = Queued(<<ValueMessage("Accepted", i, Current(i))>>)
  <2>1. CASE sub[i] = "registered"
    BY <2>1, AskQueued
  <2>2. CASE sub[i] # "registered"
    BY <2>2 DEF SubscribeStore, Register, kernel
  <2>3. QED
    BY <2>1, <2>2
<1>5. ASSUME NEW id \in Ids \ {i}, Kept(id)'
      PROVE  UpToDate(id)'
  <2>1. id \in entries /\ id \in active
    BY <1>5 DEF Kept, Followed, SubscribeStore, Register, Ask, AskInVain, Enter, kernel
  <2>2. UpToDate(id) /\ Current(id)' = Current(id)
    BY <1>1, <1>3, <1>5, <2>1 DEF Kept, Followed, CurrentInv, Current
  <2>3. CASE inbox' = inbox
    BY <1>1, <2>2, <2>3, OtherNewsComes
  <2>4. CASE /\ ValueMessage("Accepted", i, Current(i)) \in Message
             /\ inbox' = Queued(<<ValueMessage("Accepted", i, Current(i))>>)
    <3>1. ~IsValue(ValueMessage("Accepted", i, Current(i)), id)
      BY <1>5, MessagesAsValues
    <3>2. /\ <<ValueMessage("Accepted", i, Current(i))>> \in Seq(Message)
          /\ ~Holds(<<ValueMessage("Accepted", i, Current(i))>>, id)
      BY <2>4, <3>1, OneMessage
    <3>3. QED
      BY <1>1, <2>2, <2>4, <3>2, OtherNewsComes
  <2>5. QED
    BY <1>4, <2>3, <2>4
<1>6. ASSUME Kept(i)'
      PROVE  UpToDate(i)'
  <2>1. sub'[i] = "held" /\ i \in active'
    BY <1>6 DEF Kept, Followed
  <2>2. sub[i] = "registered"
    BY <1>2, <2>1 DEF SubscribeStore, Goto
  <2>3. i \notin active
    BY <2>2 DEF UiInv, Anchored, Asked
  <2>4. /\ ValueMessage("Accepted", i, Current(i)) \in Message
        /\ inbox' = Queued(<<ValueMessage("Accepted", i, Current(i))>>)
    BY <2>1, <2>2, <2>3, AskQueued
  <2>5. Current(i)' = Current(i)
    BY <1>1, <2>2, SubscribeAsks DEF Current
  <2>6. /\ <<ValueMessage("Accepted", i, Current(i))>> \in Seq(Message)
        /\ EndsIn(<<ValueMessage("Accepted", i, Current(i))>>, i, Current(i)')
    BY <2>4, <2>5, MessagesAsValues, OneMessage
  <2>7. QED
    BY <1>1, <2>4, <2>6, NewValueComes
<1>7. QED
  BY <1>1, <1>5, <1>6 DEF CurrentInv, HandIdle

LEMMA DispatcherKeepsCurrent == UiInv /\ CurrentInv /\ DispatcherStep => CurrentInv'
<1> SUFFICES ASSUME UiInv, CurrentInv, DispatcherStep PROVE CurrentInv'
  OBVIOUS
<1>1. /\ UNCHANGED <<active, service, sub, store, unheard>> /\ UiTypeOK
      /\ entries' \subseteq entries
      /\ shown' = shown \/ Send
  BY DEF DispatcherStep, Upgrade, Fetch, Wake, Dispatch, Send, kernel, threads, UiInv
<1>2. \A id : Current(id)' = Current(id)
  BY <1>1 DEF Current
<1>3. HandIdle'
  BY FetchKeepsComing
     DEF DispatcherStep, Upgrade, Fetch, Wake, Dispatch, Send, Move, CurrentInv, HandIdle
<1>4. at = "ended" => at' = "ended"
  BY DEF DispatcherStep, Upgrade, Fetch, Wake, Dispatch, Send
<1>5. ASSUME NEW id \in Ids, Kept(id)'
      PROVE  UpToDate(id)'
  <2>1. UpToDate(id) /\ id \in entries
    BY <1>1, <1>4, <1>5 DEF Kept, Followed, CurrentInv
  <2>2. CASE Coming' = Coming /\ shown' = shown
    BY <1>2, <2>1, <2>2 DEF UpToDate
  <2>3. CASE UNCHANGED <<inbox, hand, shown>>
    BY <2>2, <2>3, NothingNewComes
  <2>4. CASE Fetch
    BY <1>5, <2>2, <2>4, FetchKeepsComing DEF Kept, CurrentInv, Fetch
  <2>5. CASE (Dispatch \/ Send) /\ hand' = Nil
    <3>1. /\ hand \in Message /\ inbox' = inbox /\ hand # Nil
      BY <2>5, NilAssumption DEF Dispatch, Send, kernel, UiInv, HandInv
    <3>2. Coming = <<hand>> \o Coming' /\ Coming' \in Seq(Message)
      BY <1>1, <2>5, <3>1, HeadLeaves
    <3>3. /\ Holds(Coming', id) => Holds(Coming, id)
          /\ IsValue(hand, id) => Holds(Coming, id)
          /\ \A v : EndsIn(Coming, id, v) =>
                       \/ EndsIn(Coming', id, v)
                       \/ ~Holds(Coming', id) /\ IsValue(hand, id) /\ hand.value = v
      BY <3>1, <3>2, LastAfterHead
    <3>4. CASE ~IsValue(hand, id)
      <4>1. shown'[id] = shown[id]
        <5>1. CASE Send
          <6>1. HasValue(hand) /\ hand.id # id
            BY <3>4, <5>1 DEF Send, UiInv, HandInv, HasValue, IsValue
          <6>2. QED
            BY <5>1, <6>1 DEF Send, UiInv, UiTypeOK
        <5>2. QED
          BY <1>1, <5>1
      <4>2. QED
        BY <1>2, <2>1, <3>3, <3>4, <4>1 DEF UpToDate
    <3>5. CASE IsValue(hand, id)
      <4>1. HasValue(hand) /\ hand.id = id
        BY <3>5 DEF IsValue, HasValue
      <4>2. Send
        BY <2>1, <2>5, <3>1, <4>1 DEF Dispatch, Move
      <4>3. shown'[id] = hand.value
        BY <4>1, <4>2 DEF Send, UiInv, UiTypeOK
      <4>4. EndsIn(Coming, id, Current(id))
        BY <2>1, <3>3, <3>5 DEF UpToDate
      <4>5. QED
        BY <1>2, <3>3, <4>3, <4>4 DEF UpToDate
    <3>6. QED
      BY <3>4, <3>5
  <2>6. CASE Upgrade \/ Wake
    <3>1. hand = Nil /\ hand' = Nil /\ inbox' = inbox /\ shown' = shown
      BY <2>6 DEF Upgrade, Wake, Move, kernel, CurrentInv, HandIdle
    <3>2. QED
      BY <2>3, <3>1
  <2>7. CASE Dispatch /\ hand' = hand
    BY <2>3, <2>7 DEF Dispatch, kernel
  <2>8. QED
    BY <2>4, <2>5, <2>6, <2>7 DEF DispatcherStep, Dispatch, Send, Move
<1>6. QED
  BY <1>3, <1>5 DEF CurrentInv

LEMMA StepCurrent == UiInv /\ CurrentInv /\ [Next]_vars => CurrentInv'
<1> SUFFICES ASSUME UiInv, CurrentInv, [Next]_vars PROVE CurrentInv'
  OBVIOUS
<1>1. ASSUME UNCHANGED <<at, hand, inbox, shown, service, unheard>>,
             \A id \in Ids : Followed(id)' => Followed(id) /\ Current(id)' = Current(id)
      PROVE  CurrentInv'
  <2>1. \A id \in Ids : Kept(id)' => UpToDate(id)'
    BY <1>1, OtherNewsComes DEF Kept, CurrentInv, UiInv
  <2>2. QED
    BY <1>1, <2>1 DEF CurrentInv, HandIdle
<1>2. CASE \E s \in Services, public \in Visibilities : CreateStore(s, public)
  <2>1. PICK s \in Services, public \in Visibilities : CreateStore(s, public)
    BY <1>2
  <2>2. /\ UNCHANGED <<at, hand, inbox, shown, service, sub, entries, active, unheard>>
        /\ \A r \in Services \ {s} : store'[r] = store[r] /\ store[s] = Nil
    BY <2>1 DEF CreateStore, thread, threads, UiInv, UiTypeOK
  <2>3. \A id \in Ids : Followed(id)' => Followed(id) /\ Current(id)' = Current(id)
    BY <2>1, <2>2 DEF Followed, Current, UiInv, Anchored, CreateStore
  <2>4. QED
    BY <1>1, <2>2, <2>3
<1>3. CASE \E id \in Ids : Unsubscribe(id)
  <2>1. PICK i \in Ids : Unsubscribe(i)
    BY <1>3
  <2>2. UNCHANGED <<at, hand, inbox, shown, service, store, unheard>>
    BY <2>1 DEF Unsubscribe, thread
  <2>3. \A id \in Ids : Followed(id)' => Followed(id)
    BY <2>1 DEF Unsubscribe, Cancel, Goto, Followed, UiInv, UiTypeOK
  <2>4. QED
    BY <1>1, <2>2, <2>3 DEF Current
<1>4. CASE DropHandle \/ UNCHANGED vars
  BY <1>1, <1>4 DEF DropHandle, vars, kernel, thread, threads, Followed, Current
<1>5. CASE Disconnect
  BY <1>5 DEF Disconnect, CurrentInv, HandIdle, thread, Kept, Followed
<1>6. CASE WaitFails
  BY <1>6 DEF WaitFails, Move, CurrentInv, HandIdle, Kept
<1>7. QED
  BY <1>2, <1>3, <1>4, <1>5, <1>6, UpdateKeepsCurrent, VerdictKeepsCurrent, CloseKeepsCurrent,
     SubscribeKeepsCurrent, DispatcherKeepsCurrent DEF Next

(* A component that follows a store is not left with an old value: the     *)
(* last value on its way, or the one it shows, is the store's, unless the  *)
(* kernel had no memory to queue it.                                       *)
THEOREM ComponentsAreCurrent == Spec => []ShownIsCurrent
<1>1. CurrentInv => ShownIsCurrent
  BY UpToDateIsCurrent DEF CurrentInv, Kept, ShownIsCurrent
<1>2. Init => UiInv /\ CurrentInv
  BY InitInv DEF Init, CurrentInv, HandIdle, Kept, Followed
<1>3. UiInv /\ CurrentInv /\ [Next]_vars => UiInv' /\ CurrentInv'
  BY StepInv, StepCurrent
<1>4. QED
  BY <1>1, <1>2, <1>3, PTL DEF Spec
===============================================================================
