---------------------------- MODULE RequestProofs ----------------------------
(***************************************************************************)
(* The safety of calls, for every instance of Motherboard: a token means   *)
(* one request, and only the server that was given a request answers it; a *)
(* call has one life, so the bus implements Rpc; calls keep their order    *)
(* through both queues; and no caller waits for a call that is gone.       *)
(*                                                                         *)
(* The argument for the first: a request is known only to the file it was  *)
(* sent to, and all tokens a file was ever given, answered or not, are     *)
(* below the counter of their table.  New tokens start at the counter, so  *)
(* they match no request given before.                                     *)
(***************************************************************************)
EXTENDS MotherboardTypes

(* The messages of an inbox, as a set. *)
Contents(box) == IF box = Nil THEN {} ELSE Range(box.messages)

LEMMA CarriedContents ==
    \A f : Carried(f) = held[f] \union Contents(inboxes[f])
<1> SUFFICES ASSUME NEW f PROVE Range(MessagesOf(f)) = Contents(inboxes[f])
  BY DEF Carried
<1>1. Range(<<>>) = {}
  BY DEF Range
<1>2. QED
  BY <1>1 DEF MessagesOf, Contents

LEMMA CarriedContentsPrime ==
    \A f : Carried(f)' = held'[f] \union Contents(inboxes'[f])
<1> SUFFICES ASSUME NEW f PROVE Range(MessagesOf(f)') = Contents(inboxes'[f])
  BY DEF Carried
<1>1. Range(<<>>) = {}
  BY DEF Range
<1>2. QED
  BY <1>1 DEF MessagesOf, Contents

LEMMA ContentsOfQueueAll ==
    ASSUME NEW M, NEW box \in MaybeInbox(M), NEW ms \in Seq(M)
    PROVE  Contents(QueueAll(box, ms)) \subseteq Contents(box) \union Range(ms)
<1>1. Ensure(box) \in Inbox(M)
  BY EnsureIsInbox
<1>2. Ensure(box).messages \in Seq(M)
  BY <1>1 DEF Inbox
<1>3. QueueAll(box, ms).messages = Ensure(box).messages \o ms
  BY DEF QueueAll
<1>4. Range(Ensure(box).messages \o ms) = Range(Ensure(box).messages) \union Range(ms)
  BY <1>2, RangeConcatenation
<1>5. Range(Ensure(box).messages) \subseteq Contents(box)
  <2>1. CASE box = Nil
    BY <2>1 DEF Ensure, NewInbox, Range
  <2>2. CASE box # Nil
    BY <2>2 DEF Ensure, Contents
  <2>3. QED
    BY <2>1, <2>2
<1>6. Contents(QueueAll(box, ms)) \subseteq Range(QueueAll(box, ms).messages)
  BY DEF Contents
<1>7. QED
  BY <1>3, <1>4, <1>5, <1>6

LEMMA ContentsOfNotify ==
    ASSUME NEW M, NEW box \in MaybeInbox(M)
    PROVE  Contents(Notify(box)) \subseteq Contents(box)
<1>1. CASE box = Nil
  BY <1>1 DEF Notify
<1>2. CASE box # Nil
  <2>1. Notify(box).messages = box.messages
    BY <1>2 DEF MaybeInbox, Inbox, Notify
  <2>2. QED
    BY <1>2, <2>1 DEF Contents
<1>3. QED
  BY <1>1, <1>2

LEMMA ContentsOfEnsure ==
    ASSUME NEW box
    PROVE  Contents(Ensure(box)) \subseteq Contents(box)
BY DEF Ensure, NewInbox, Contents, Range

LEMMA ContentsOfPop ==
    ASSUME NEW M, NEW box \in MaybeInbox(M), HasMessage(box)
    PROVE  /\ Contents(Pop(box)) \subseteq Contents(box)
           /\ Head(box.messages) \in Contents(box)
<1>1. box # Nil /\ box.messages \in Seq(M) /\ box.messages # <<>>
  BY DEF HasMessage, MaybeInbox, Inbox
<1>2. Pop(box).messages = Tail(box.messages)
  BY <1>1 DEF Pop, MaybeInbox, Inbox
<1>3. Range(Tail(box.messages)) \subseteq Range(box.messages)
  <2>1. /\ Tail(box.messages) \in Seq(M)
        /\ Len(Tail(box.messages)) = Len(box.messages) - 1
        /\ \A i \in 1 .. Len(Tail(box.messages)) : Tail(box.messages)[i] = box.messages[i + 1]
    BY <1>1, HeadTailProperties
  <2>2. /\ Range(Tail(box.messages)) =
              {Tail(box.messages)[i] : i \in 1 .. Len(Tail(box.messages))}
        /\ Range(box.messages) = {box.messages[i] : i \in 1 .. Len(box.messages)}
    BY <1>1, <2>1, RangeEquality
  <2>3. Len(box.messages) \in Nat
    BY <1>1, LenProperties
  <2>4. \A i \in 1 .. Len(box.messages) - 1 : i + 1 \in 1 .. Len(box.messages)
    BY <2>3
  <2>5. QED
    BY <2>1, <2>2, <2>4
<1>4. Head(box.messages) \in Range(box.messages)
  <2>1. Len(box.messages) \in Nat \ {0}
    BY <1>1, EmptySeq, LenProperties
  <2>2. Head(box.messages) = box.messages[1]
    BY <1>1
  <2>3. QED
    BY <1>1, <2>1, <2>2, RangeEquality
<1>5. QED
  BY <1>1, <1>2, <1>3, <1>4 DEF Contents

LEMMA ContentsOfSend ==
    ASSUME NEW boxes \in [FileIds -> MaybeInbox(Message)], NEW g \in FileIds,
           NEW m \in Message, NEW shortage, NEW f \in FileIds
    PROVE  Contents(Send(boxes, g, m, shortage)[f]) \subseteq
               Contents(boxes[f]) \union (IF f = g THEN {m} ELSE {})
<1>1. <<m>> \in Seq(Message) /\ Range(<<m>>) = {m}
  BY DEF Range
<1>2. Contents(QueueAll(boxes[g], <<m>>)) \subseteq Contents(boxes[g]) \union {m}
  BY <1>1, ContentsOfQueueAll
<1>3. CASE g \in shortage
  BY <1>3 DEF Send
<1>4. CASE g \notin shortage
  <2>1. Send(boxes, g, m, shortage)[f] =
           IF f = g THEN QueueAll(boxes[g], <<m>>) ELSE boxes[f]
    BY <1>4 DEF Send
  <2>2. QED
    BY <1>2, <2>1
<1>5. QED
  BY <1>3, <1>4

MessagesIn(notices) == {n.message : n \in notices}

LEMMA ContentsOfPost ==
    ASSUME NEW boxes \in [FileIds -> MaybeInbox(Message)],
           NEW notices, IsFiniteSet(notices), NoticesAreTyped(notices),
           NEW mail \in Mailings(notices), NEW f \in FileIds
    PROVE  Contents(Post(boxes, mail)[f]) \subseteq Contents(boxes[f]) \union MessagesIn(notices)
<1> DEFINE mine == {n \in notices : n.to = f}
           ms == [i \in 1 .. Len(mail[f]) |-> mail[f][i].message]
<1>1. mail[f] \in Orders(mine)
  BY DEF Mailings
<1>2. IsFiniteSet(mine)
  BY FS_Subset
<1>3. mail[f] \in Seq(mine) /\ Len(mail[f]) \in Nat
  BY <1>1, <1>2, OrderIsSeq
<1>4. \A i \in 1 .. Len(mail[f]) : mail[f][i] \in notices
  BY <1>3, ElementOfSeq
<1>5. \A i \in 1 .. Len(mail[f]) : mail[f][i].message \in Message
  BY <1>4 DEF NoticesAreTyped
<1>6. ms \in [1 .. Len(mail[f]) -> Message]
  BY <1>5
<1>7. ms \in Seq(Message)
  BY <1>3, <1>6, SeqDef
<1>8. Range(ms) \subseteq MessagesIn(notices)
  BY <1>4 DEF Range, MessagesIn
<1>9. Contents(QueueAll(boxes[f], ms)) \subseteq Contents(boxes[f]) \union Range(ms)
  BY <1>7, ContentsOfQueueAll
<1>10. Post(boxes, mail)[f] = boxes[f] \/ Post(boxes, mail)[f] = QueueAll(boxes[f], ms)
  BY DEF Post
<1> HIDE DEF ms, mine
<1>11. QED
  BY <1>8, <1>9, <1>10

-------------------------------------------------------------------------------
(***************************************************************************)
(* The inductive invariant, and what keeps it when no token is issued.     *)
(***************************************************************************)
IsRequest(m) == m.type \in {"FunctionCallRequest", "SubscribeRequest"}

CallTokensBelow ==
    /\ \A p \in replyTokens.pending : p.token < replyTokens.next
    /\ \A f \in FileIds : \A m \in Carried(f) :
          m.type = "FunctionCallRequest" => m.token < replyTokens.next

SubTokensBelow ==
    /\ \A p \in subTokens.pending : p.token < subTokens.next
    /\ \A f \in FileIds : \A m \in Carried(f) :
          m.type = "SubscribeRequest" => m.token < subTokens.next

CallsMatch ==
    \A f \in FileIds : \A m \in Carried(f), p \in replyTokens.pending :
        m.type = "FunctionCallRequest" /\ p.token = m.token =>
            /\ p.service = f /\ p.call = m.call
            /\ p.client = m.client /\ p.origin = m.origin

SubsMatch ==
    \A f \in FileIds : \A m \in Carried(f), p \in subTokens.pending :
        m.type = "SubscribeRequest" /\ p.token = m.token =>
            p.service = f /\ p.id = m.id /\ p.target = m.target

MatchInv == CallsMatch /\ SubsMatch /\ CallTokensBelow /\ SubTokensBelow

LEMMA MatchInvSuffices == MatchInv => TokensMatchRequests
BY DEF MatchInv, CallsMatch, SubsMatch, TokensMatchRequests

(* No connection learns of a call request, or of a subscription request.   *)
NoNewCalls ==
    \A f \in FileIds : \A m \in Carried(f)' :
        m.type = "FunctionCallRequest" => m \in Carried(f)

NoNewSubs ==
    \A f \in FileIds : \A m \in Carried(f)' :
        m.type = "SubscribeRequest" => m \in Carried(f)

LEMMA CallsKept ==
    ASSUME MatchInv, NoNewCalls,
           replyTokens'.next = replyTokens.next,
           replyTokens'.pending \subseteq replyTokens.pending
    PROVE  CallsMatch' /\ CallTokensBelow'
<1>1. CallsMatch'
  BY DEF MatchInv, CallsMatch, NoNewCalls
<1>2. CallTokensBelow'
  BY DEF MatchInv, CallTokensBelow, NoNewCalls
<1>3. QED
  BY <1>1, <1>2

LEMMA SubsKept ==
    ASSUME MatchInv, NoNewSubs,
           subTokens'.next = subTokens.next,
           subTokens'.pending \subseteq subTokens.pending
    PROVE  SubsMatch' /\ SubTokensBelow'
<1>1. SubsMatch'
  BY DEF MatchInv, SubsMatch, NoNewSubs
<1>2. SubTokensBelow'
  BY DEF MatchInv, SubTokensBelow, NoNewSubs
<1>3. QED
  BY <1>1, <1>2

(* What most commands do: no request is passed on and no token is issued.  *)
LEMMA NothingIssued ==
    ASSUME MatchInv,
           \A f \in FileIds : held'[f] \subseteq held[f],
           \A f \in FileIds : \A m \in Contents(inboxes'[f]) :
               IsRequest(m) => m \in Contents(inboxes[f]),
           replyTokens'.next = replyTokens.next,
           replyTokens'.pending \subseteq replyTokens.pending,
           subTokens'.next = subTokens.next,
           subTokens'.pending \subseteq subTokens.pending
    PROVE  MatchInv'
<1>1. \A f \in FileIds : \A m \in Carried(f)' : IsRequest(m) => m \in Carried(f)
  BY CarriedContents, CarriedContentsPrime
<1>2. NoNewCalls /\ NoNewSubs
  BY <1>1 DEF NoNewCalls, NoNewSubs, IsRequest
<1>3. QED
  BY <1>2, CallsKept, SubsKept DEF MatchInv

LEMMA UnchangedBoxes ==
    ASSUME inboxes' = inboxes
    PROVE  \A f \in FileIds : \A m \in Contents(inboxes'[f]) :
               IsRequest(m) => m \in Contents(inboxes[f])
OBVIOUS

(* A message that is not a request may be sent, and many may be posted.    *)
LEMMA SentNoRequest ==
    ASSUME TypeInv, NEW g \in FileIds, NEW m \in Message, ~IsRequest(m), NEW shortage,
           inboxes' = Send(inboxes, g, m, shortage)
    PROVE  \A f \in FileIds : \A x \in Contents(inboxes'[f]) :
               IsRequest(x) => x \in Contents(inboxes[f])
<1>1. inboxes \in [FileIds -> MaybeInbox(Message)]
  BY DEF TypeInv, TypeOK, CallTypes, MaybeInbox
<1>2. QED
  BY <1>1, ContentsOfSend

NoRequests(notices) ==
    /\ IsFiniteSet(notices)
    /\ NoticesAreTyped(notices)
    /\ \A n \in notices : ~IsRequest(n.message)

LEMMA PostedNoRequest ==
    ASSUME NEW boxes \in [FileIds -> MaybeInbox(Message)],
           \A f \in FileIds : boxes[f] \in {Nil, inboxes[f]},
           NEW notices, NoRequests(notices), NEW mail \in Mailings(notices),
           inboxes' = Post(boxes, mail)
    PROVE  \A f \in FileIds : \A x \in Contents(inboxes'[f]) :
               IsRequest(x) => x \in Contents(inboxes[f])
<1> SUFFICES ASSUME NEW f \in FileIds, NEW x \in Contents(inboxes'[f]), IsRequest(x)
             PROVE  x \in Contents(inboxes[f])
  OBVIOUS
<1>1. Contents(inboxes'[f]) \subseteq Contents(boxes[f]) \union MessagesIn(notices)
  BY ContentsOfPost DEF NoRequests
<1>2. x \in Contents(boxes[f])
  BY <1>1 DEF NoRequests, MessagesIn
<1>3. QED
  BY <1>2 DEF Contents

-------------------------------------------------------------------------------
(***************************************************************************)
(* What keeps the invariant when tokens are issued: the new requests have  *)
(* tokens from the counter on, and all go to the file their entries name.  *)
(***************************************************************************)
(* requests are handed to f and to nobody else *)
HandedTo(f, requests) ==
    \A g \in FileIds : \A m \in Carried(g)' : m \in Carried(g) \/ (g = f /\ m \in requests)

TokensIn(S, low, high) == \A x \in S : x.token \in Nat /\ low <= x.token /\ x.token <= high

(* entries of the tables say what was handed to f *)
CallEntries(f, requests, entries) ==
    \A m \in requests, p \in entries :
        p.token = m.token => /\ p.service = f /\ p.call = m.call
                             /\ p.client = m.client /\ p.origin = m.origin

SubEntries(f, requests, entries) ==
    \A m \in requests, p \in entries :
        p.token = m.token => p.service = f /\ p.id = m.id /\ p.target = m.target

LEMMA CarriedTypes ==
    ASSUME TypeInv, NEW f \in FileIds, NEW m \in Carried(f)
    PROVE  /\ m.type = "FunctionCallRequest" => m.token \in Nat
           /\ m.type = "SubscribeRequest" => m.token \in Nat
<1>1. CASE m \in held[f]
  <2>1. m \in CallRequest \union SubscribeRequest
    BY <1>1 DEF TypeInv, TypeOK, ProcessTypes
  <2>2. QED
    BY <2>1 DEF CallRequest, SubscribeRequest, Tokens
<1>2. CASE m \in Contents(inboxes[f])
  <2>1. inboxes[f] # Nil /\ m \in Range(inboxes[f].messages)
    BY <1>2 DEF Contents
  <2>2. inboxes[f].messages \in Seq(Message)
    BY <2>1 DEF TypeInv, TypeOK, CallTypes, Inbox
  <2>3. m \in Message
    BY <2>1, <2>2, RangeOfSeq
  <2>4. QED
    BY <2>3, MessageKinds DEF CallRequest, SubscribeRequest, Tokens
<1>3. QED
  BY <1>1, <1>2, CarriedContents

LEMMA CallsIssued ==
    ASSUME TypeInv, MatchInv, NEW f \in FileIds, NEW requests, NEW entries, NEW last \in Nat,
           replyTokens.next <= last,
           replyTokens'.next = last + 1,
           replyTokens'.pending = replyTokens.pending \union entries,
           HandedTo(f, requests),
           TokensIn(requests, replyTokens.next, last),
           TokensIn(entries, replyTokens.next, last),
           CallEntries(f, requests, entries)
    PROVE  CallsMatch' /\ CallTokensBelow'
<1>1. replyTokens.next \in Nat /\ \A p \in replyTokens.pending : p.token \in Nat
  BY DEF TypeInv, TypeOK, CallTypes, PendingReply, Tokens
<1>2. \A p \in replyTokens.pending : p.token < replyTokens.next
  BY DEF MatchInv, CallTokensBelow
<1>3. \A g \in FileIds : \A m \in Carried(g) : m.type = "FunctionCallRequest" =>
          m.token \in Nat /\ m.token < replyTokens.next
  BY CarriedTypes DEF MatchInv, CallTokensBelow
<1>4. CallTokensBelow'
  <2>1. \A p \in replyTokens'.pending : p.token < replyTokens'.next
    BY <1>1, <1>2 DEF TokensIn
  <2>2. ASSUME NEW g \in FileIds, NEW m \in Carried(g)', m.type = "FunctionCallRequest"
        PROVE  m.token < last + 1
    <3>1. m \in Carried(g) \/ m \in requests
      BY DEF HandedTo
    <3>2. QED
      BY <1>1, <1>3, <2>2, <3>1 DEF TokensIn
  <2>3. QED
    BY <2>1, <2>2 DEF CallTokensBelow
<1>5. ASSUME NEW g \in FileIds, NEW m \in Carried(g)', NEW p \in replyTokens'.pending,
             m.type = "FunctionCallRequest", p.token = m.token
      PROVE  /\ p.service = g /\ p.call = m.call
             /\ p.client = m.client /\ p.origin = m.origin
  <2>1. CASE m \in Carried(g) /\ p \in replyTokens.pending
    BY <1>5, <2>1 DEF MatchInv, CallsMatch
  <2>2. m \in Carried(g) => p \notin entries
    BY <1>1, <1>3, <1>5 DEF TokensIn
  <2>3. m \in requests => p \notin replyTokens.pending
    BY <1>1, <1>2, <1>5 DEF TokensIn
  <2>4. CASE g = f /\ m \in requests /\ p \in entries
    BY <1>5, <2>4 DEF CallEntries
  <2>5. m \in Carried(g) \/ (g = f /\ m \in requests)
    BY DEF HandedTo
  <2>6. QED
    BY <2>1, <2>2, <2>3, <2>4, <2>5
<1>6. CallsMatch'
  BY <1>5 DEF CallsMatch
<1>7. QED
  BY <1>4, <1>6

LEMMA SubsIssued ==
    ASSUME TypeInv, MatchInv, NEW f \in FileIds, NEW requests, NEW entries, NEW last \in Nat,
           subTokens.next <= last,
           subTokens'.next = last + 1,
           subTokens'.pending \subseteq subTokens.pending \union entries,
           HandedTo(f, requests),
           TokensIn(requests, subTokens.next, last),
           TokensIn(entries, subTokens.next, last),
           SubEntries(f, requests, entries)
    PROVE  SubsMatch' /\ SubTokensBelow'
<1>1. subTokens.next \in Nat /\ \A p \in subTokens.pending : p.token \in Nat
  BY DEF TypeInv, TypeOK, StoreTypes, PendingSubscription, Tokens
<1>2. \A p \in subTokens.pending : p.token < subTokens.next
  BY DEF MatchInv, SubTokensBelow
<1>3. \A g \in FileIds : \A m \in Carried(g) : m.type = "SubscribeRequest" =>
          m.token \in Nat /\ m.token < subTokens.next
  BY CarriedTypes DEF MatchInv, SubTokensBelow
<1>4. SubTokensBelow'
  <2>1. \A p \in subTokens'.pending : p.token < subTokens'.next
    BY <1>1, <1>2 DEF TokensIn
  <2>2. ASSUME NEW g \in FileIds, NEW m \in Carried(g)', m.type = "SubscribeRequest"
        PROVE  m.token < last + 1
    <3>1. m \in Carried(g) \/ m \in requests
      BY DEF HandedTo
    <3>2. QED
      BY <1>1, <1>3, <2>2, <3>1 DEF TokensIn
  <2>3. QED
    BY <2>1, <2>2 DEF SubTokensBelow
<1>5. ASSUME NEW g \in FileIds, NEW m \in Carried(g)', NEW p \in subTokens'.pending,
             m.type = "SubscribeRequest", p.token = m.token
      PROVE  p.service = g /\ p.id = m.id /\ p.target = m.target
  <2>1. CASE m \in Carried(g) /\ p \in subTokens.pending
    BY <1>5, <2>1 DEF MatchInv, SubsMatch
  <2>2. m \in Carried(g) => p \notin entries
    BY <1>1, <1>3, <1>5 DEF TokensIn
  <2>3. m \in requests => p \notin subTokens.pending
    BY <1>1, <1>2, <1>5 DEF TokensIn
  <2>4. CASE g = f /\ m \in requests /\ p \in entries
    BY <1>5, <2>4 DEF SubEntries
  <2>5. m \in Carried(g) \/ (g = f /\ m \in requests)
    BY DEF HandedTo
  <2>6. QED
    BY <2>1, <2>2, <2>3, <2>4, <2>5
<1>6. SubsMatch'
  BY <1>5 DEF SubsMatch
<1>7. QED
  BY <1>4, <1>6

-------------------------------------------------------------------------------
(* The notices of updates and of clean-up carry no requests. *)
News(notices) == \A n \in notices : ~IsRequest(n.message)

LEMMA UpdateNoticesAreNews ==
    ASSUME NEW target, NEW value, NEW shortage,
           NEW notices \in Reached(UpdateNotices(target, value), shortage)
    PROVE  News(notices)
<1>1. News(UpdateNotices(target, value))
  BY DEF News, UpdateNotices, Notice, ValueMessage, IsRequest
<1>2. notices \subseteq UpdateNotices(target, value)
  BY DEF Reached
<1>3. QED
  BY <1>1, <1>2 DEF News

LEMMA CloseNoticesAreNews ==
    ASSUME NEW f, NEW rank
    PROVE  /\ News(PendingNotices(f))
           /\ News(OwnerNotices(f))
           /\ News(ExitNotices(f, rank))
           /\ \A earlier : News(ServiceClosedNotices(f, rank, earlier))
<1>1. \A t, id : ~IsRequest(EndMessage("Closed", t, id))
  BY DEF IsRequest, EndMessage
<1>2. \A to, phase, key, m : Notice(to, phase, key, m).message = m
  BY DEF Notice
<1>3. News(PendingNotices(f))
  BY <1>1, <1>2 DEF News, PendingNotices
<1>4. News(OwnerNotices(f))
  BY <1>1, <1>2 DEF News, OwnerNotices
<1>5. News(ExitNotices(f, rank))
  BY <1>1, <1>2 DEF News, ExitNotices
<1>6. \A earlier : News(ServiceClosedNotices(f, rank, earlier))
  <2>1. \A s : ~IsRequest([type |-> "ServiceClosed", service |-> s])
    BY DEF IsRequest
  <2>2. ASSUME NEW earlier, NEW n \in ServiceClosedNotices(f, rank, earlier)
        PROVE  ~IsRequest(n.message)
    <3>1. \E x : n.message = [type |-> "ServiceClosed", service |-> x[2]]
      BY <1>2 DEF ServiceClosedNotices
    <3>2. QED
      BY <2>1, <3>1
  <2>3. QED
    BY <2>2 DEF News
<1>7. QED
  BY <1>3, <1>4, <1>5, <1>6

(* What an update queues when it queues anything. *)
LEMMA UpdatePosted ==
    ASSUME TypeInv, NEW target \in Targets, NEW value \in Nat, NEW shortage,
           \E notices \in Reached(UpdateNotices(target, value), shortage) :
           \E mail \in Mailings(notices) : inboxes' = Post(inboxes, mail)
    PROVE  \A f \in FileIds : \A m \in Contents(inboxes'[f]) :
               IsRequest(m) => m \in Contents(inboxes[f])
<1>1. PICK notices \in Reached(UpdateNotices(target, value), shortage) :
           \E mail \in Mailings(notices) : inboxes' = Post(inboxes, mail)
  OBVIOUS
<1>2. NoRequests(notices)
  BY <1>1, UpdateNoticesTypes, UpdateNoticesAreNews DEF NoRequests, News
<1>3. inboxes \in [FileIds -> MaybeInbox(Message)]
  BY DEF TypeInv, TypeOK, CallTypes, MaybeInbox
<1>4. QED
  BY <1>1, <1>2, <1>3, PostedNoRequest

-------------------------------------------------------------------------------
(* The commands, one by one *)

LEMMA InitMatch == Init => MatchInv
<1> SUFFICES ASSUME Init PROVE MatchInv
  OBVIOUS
<1>1. replyTokens.pending = {} /\ subTokens.pending = {}
  BY DEF Init, NoTokens
<1>2. \A f \in FileIds : Carried(f) = {}
  BY CarriedContents DEF Init, Contents
<1>3. QED
  BY <1>1, <1>2 DEF MatchInv, CallsMatch, SubsMatch, CallTokensBelow, SubTokensBelow

LEMMA StutterMatch == MatchInv /\ UNCHANGED vars => MatchInv'
BY UnchangedBoxes, NothingIssued DEF vars

LEMMA OpenMatch ==
    ASSUME MatchInv, NEW f \in FileIds, Open(f)
    PROVE  MatchInv'
BY UnchangedBoxes, NothingIssued DEF Open, tables, apps

LEMMA BindServiceMatch ==
    ASSUME MatchInv, NEW f \in FileIds, NEW s, BindService(f, s)
    PROVE  MatchInv'
BY UnchangedBoxes, NothingIssued DEF BindService, tables, apps

LEMMA FunctionCallMatch ==
    ASSUME TypeInv, MatchInv, NEW f \in FileIds, NEW s \in ServiceNames, FunctionCall(f, s)
    PROVE  MatchInv'
<1>1. /\ UNCHANGED <<replyTokens, subTokens, held>>
      /\ inboxes' = [inboxes EXCEPT ![services[s].file] = Notify(inboxes[services[s].file])]
  BY DEF FunctionCall, tables
<1>2. \A g \in FileIds : Contents(inboxes'[g]) \subseteq Contents(inboxes[g])
  <2>1. \A g \in FileIds : inboxes[g] \in MaybeInbox(Message)
    BY DEF TypeInv, TypeOK, CallTypes, MaybeInbox
  <2>2. \A g \in FileIds : inboxes'[g] = inboxes[g] \/ inboxes'[g] = Notify(inboxes[g])
    BY <1>1 DEF TypeInv, TypeOK, CallTypes
  <2>3. QED
    BY <2>1, <2>2, ContentsOfNotify
<1>3. QED
  BY <1>1, <1>2, NothingIssued

LEMMA FunctionCallReplyMatch ==
    ASSUME TypeInv, MatchInv, NEW f \in FileIds, NEW m, NEW badFds, NEW shortage,
           FunctionCallReply(f, m, badFds, shortage)
    PROVE  MatchInv'
<1> DEFINE consumed == Consumable(replyTokens, m.token, f)
<1>1. /\ subTokens' = subTokens
      /\ held' = [held EXCEPT ![f] = held[f] \ {m}]
  BY DEF FunctionCallReply
<1>2. \A g \in FileIds : held'[g] \subseteq held[g]
  BY <1>1 DEF TypeInv, TypeOK, ProcessTypes
<1>3. /\ replyTokens'.next = replyTokens.next
      /\ replyTokens'.pending \subseteq replyTokens.pending
  <2>1. replyTokens' = replyTokens \/ replyTokens' = Discard(replyTokens, consumed)
    BY DEF FunctionCallReply
  <2>2. QED
    BY <2>1 DEF Discard, TypeInv, TypeOK, CallTypes
<1>4. \A g \in FileIds : \A x \in Contents(inboxes'[g]) :
         IsRequest(x) => x \in Contents(inboxes[g])
  <2>1. CASE inboxes' = inboxes
    BY <2>1
  <2>2. CASE inboxes' # inboxes
    <3>1. PICK p \in consumed : inboxes' = Send(inboxes, p.client, CallReplyOf(p), shortage)
      BY <2>2 DEF FunctionCallReply
    <3>2. p \in PendingReply
      BY DEF Consumable, TypeInv, TypeOK, CallTypes
    <3>3. CallReplyOf(p) \in Message /\ p.client \in FileIds
      BY <3>2, MessageTypes DEF PendingReply
    <3>4. ~IsRequest(CallReplyOf(p))
      BY DEF CallReplyOf, IsRequest
    <3>5. QED
      BY <3>1, <3>3, <3>4, SentNoRequest
  <2>3. QED
    BY <2>1, <2>2
<1>5. QED
  BY <1>1, <1>2, <1>3, <1>4, NothingIssued

(* A fetched request goes from the inbox of f to f. *)
LEMMA ReceivedBy ==
    ASSUME TypeInv, NEW f \in FileIds, NEW m, Receive(f, m) \/ LoseResult
    PROVE  \A g \in FileIds :
               held'[g] \subseteq held[g] \union (IF g = f /\ IsRequest(m) THEN {m} ELSE {})
<1>1. CASE LoseResult
  BY <1>1 DEF LoseResult
<1>2. CASE Receive(f, m)
  <2>1. held' = IF IsRequest(m) THEN [held EXCEPT ![f] = @ \union {m}] ELSE held
    BY <1>2 DEF Receive, IsRequest
  <2>2. held \in [FileIds -> SUBSET (CallRequest \union SubscribeRequest)]
    BY DEF TypeInv, TypeOK, ProcessTypes
  <2>3. QED
    BY <2>1, <2>2
<1>3. QED
  BY <1>1, <1>2

LEMMA PopMessageMatch ==
    ASSUME TypeInv, MatchInv, NEW f \in FileIds, PopMessage(f), subTokens' = subTokens
    PROVE  MatchInv'
<1> DEFINE head == Head(inboxes[f].messages)
<1>1. /\ HasMessage(inboxes[f])
      /\ inboxes' = [inboxes EXCEPT ![f] = Pop(inboxes[f])]
      /\ Receive(f, head) \/ LoseResult
      /\ replyTokens' = replyTokens
  BY DEF PopMessage
<1>2. \A g \in FileIds : inboxes[g] \in MaybeInbox(Message)
  BY DEF TypeInv, TypeOK, CallTypes, MaybeInbox
<1>3. Contents(Pop(inboxes[f])) \subseteq Contents(inboxes[f]) /\ head \in Contents(inboxes[f])
  BY <1>1, <1>2, ContentsOfPop
<1>4. \A g \in FileIds : Contents(inboxes'[g]) \subseteq Contents(inboxes[g])
  <2>1. \A g \in FileIds : g # f => inboxes'[g] = inboxes[g]
    BY <1>1 DEF TypeInv, TypeOK, CallTypes
  <2>2. inboxes'[f] = Pop(inboxes[f])
    BY <1>1 DEF TypeInv, TypeOK, CallTypes
  <2>3. QED
    BY <1>3, <2>1, <2>2
<1> HIDE DEF head
<1>5. \A g \in FileIds : held'[g] \subseteq held[g] \union (IF g = f THEN {head} ELSE {})
  BY <1>1, ReceivedBy
<1>6. \A g \in FileIds : Carried(g)' \subseteq Carried(g)
  BY <1>3, <1>4, <1>5, CarriedContents, CarriedContentsPrime
<1>7. NoNewCalls /\ NoNewSubs
  BY <1>6 DEF NoNewCalls, NoNewSubs
<1>8. QED
  BY <1>1, <1>7, CallsKept, SubsKept DEF MatchInv

LEMMA WouldBlockMatch ==
    ASSUME TypeInv, MatchInv, NEW f \in FileIds, NEW shortage, WouldBlock(f, shortage),
           subTokens' = subTokens
    PROVE  MatchInv'
<1>1. /\ UNCHANGED <<replyTokens, held>>
      /\ inboxes' = inboxes \/ inboxes' = [inboxes EXCEPT ![f] = Ensure(inboxes[f])]
  BY DEF WouldBlock
<1>2. \A g \in FileIds : inboxes'[g] = inboxes[g] \/ inboxes'[g] = Ensure(inboxes[g])
  BY <1>1 DEF TypeInv, TypeOK, CallTypes
<1>3. \A g \in FileIds : Contents(inboxes'[g]) \subseteq Contents(inboxes[g])
  BY <1>2, ContentsOfEnsure
<1>4. QED
  BY <1>1, <1>3, NothingIssued

(* A flush.  The requests it makes have tokens from the counter on, one    *)
(* for each entry, and they go to the file the entries name as the one     *)
(* that may answer.                                                        *)
LEMMA FlushRequestsMatch ==
    ASSUME TypeInv, MatchInv, NEW f \in FileIds, NEW s \in ServicesOf(f), NEW shortage,
           FlushRequests(f, s, shortage), subTokens' = subTokens
    PROVE  MatchInv'
<1> DEFINE queue == services[s].queue
           count == Len(queue)
           request(ts, i) ==
               [type |-> "FunctionCallRequest", service |-> s, client |-> queue[i].client,
                origin |-> queue[i].origin, call |-> queue[i].call, token |-> ts[i]]
           entry(ts, i) ==
               [token |-> ts[i], client |-> queue[i].client, service |-> f,
                call |-> queue[i].call, origin |-> queue[i].origin]
           entries(ts) == {entry(ts, i) : i \in 1 .. count}
           requests(ts) == {request(ts, i) : i \in 1 .. count}
           rest(ts) == [i \in 1 .. count - 1 |-> request(ts, i + 1)]
           old == replyTokens.next
<1>1. s \in ServiceNames /\ services[s] \in BoundService
  BY DEF TypeInv, TypeOK, CallTypes, ServicesOf, BoundService
<1>2. queue \in Seq(QueuedRequest) /\ count \in Nat /\ count > 0
  BY <1>1, EmptySeq, LenProperties DEF FlushRequests, BoundService
<1>3. \A i \in 1 .. count : queue[i] \in QueuedRequest
  BY <1>2, ElementOfSeq
<1>4. PICK ts \in Allocate(replyTokens, count) :
        /\ old <= ts[count] /\ ts[count] < U64Max
        /\ replyTokens' = Create(replyTokens, ts, entries(ts))
        /\ \/ UNCHANGED <<inboxes, held>>
           \/ /\ \/ inboxes' = inboxes
                 \/ inboxes' = [inboxes EXCEPT ![f] = QueueAll(inboxes[f], rest(ts))]
              /\ Receive(f, request(ts, 1)) \/ LoseResult
  BY DEF FlushRequests
<1>5. FreshTokens(replyTokens, count, ts)
  BY <1>2, AllocateGivesFreshTokens, Zenon
<1>6. /\ Len(ts) = count
      /\ \A i \in 1 .. count : ts[i] \in Nat
      /\ \A i \in 1 .. count : ts[i] \in Tokens
  BY <1>5 DEF FreshTokens, Tokens
<1>7. \A i \in 1 .. count : old <= ts[i] /\ ts[i] <= ts[count]
  <2>1. replyTokens.next \in Tokens
    BY DEF TypeInv, TypeOK, CallTypes
  <2>2. QED
    BY <1>2, <1>4, <2>1, TokensGoUp
<1>8. /\ replyTokens'.next = ts[count] + 1
      /\ replyTokens'.pending = replyTokens.pending \union entries(ts)
  BY <1>2, <1>4, <1>6, U64MaxAssumption DEF Create, Successor
<1>9. \A i \in 1 .. count : request(ts, i) \in Message
  <2>1. \A i \in 1 .. count : request(ts, i) \in CallRequest
    BY <1>1, <1>3, <1>6 DEF QueuedRequest, CallRequest
  <2>2. QED
    BY <2>1 DEF Message
<1>10. HandedTo(f, requests(ts))
  <2>1. rest(ts) \in Seq(Message) /\ Range(rest(ts)) \subseteq requests(ts)
    <3>1. count - 1 \in Nat
      BY <1>2
    <3>2. \A i \in 1 .. count - 1 : i + 1 \in 1 .. count
      BY <1>2
    <3>3. rest(ts) \in [1 .. count - 1 -> Message]
      BY <1>9, <3>2
    <3>4. Range(rest(ts)) \subseteq requests(ts)
      BY <3>2 DEF Range
    <3>5. rest(ts) \in Seq(Message)
      BY <3>1, <3>3, SeqDef
    <3>6. QED
      BY <3>4, <3>5
  <2>2. request(ts, 1) \in requests(ts)
    BY <1>2
  <2> HIDE DEF rest, requests, request, entries
  <2>3. Contents(QueueAll(inboxes[f], rest(ts))) \subseteq Contents(inboxes[f]) \union requests(ts)
    <3>1. inboxes[f] \in MaybeInbox(Message)
      BY DEF TypeInv, TypeOK, CallTypes, MaybeInbox
    <3>2. QED
      BY <2>1, <3>1, ContentsOfQueueAll
  <2>4. \A g \in FileIds : Contents(inboxes'[g]) \subseteq
            Contents(inboxes[g]) \union (IF g = f THEN requests(ts) ELSE {})
    <3>1. CASE inboxes' = inboxes
      BY <3>1
    <3>2. CASE inboxes' = [inboxes EXCEPT ![f] = QueueAll(inboxes[f], rest(ts))]
      BY <2>3, <3>2 DEF TypeInv, TypeOK, CallTypes
    <3>3. QED
      BY <1>4, <3>1, <3>2
  <2>5. \A g \in FileIds :
            held'[g] \subseteq held[g] \union (IF g = f THEN requests(ts) ELSE {})
    <3>1. CASE held' = held
      BY <3>1
    <3>2. CASE Receive(f, request(ts, 1)) \/ LoseResult
      BY <2>2, <3>2, ReceivedBy
    <3>3. QED
      BY <1>4, <3>1, <3>2
  <2>6. QED
    BY <2>4, <2>5, CarriedContents, CarriedContentsPrime DEF HandedTo
<1>11. TokensIn(requests(ts), old, ts[count]) /\ TokensIn(entries(ts), old, ts[count])
  BY <1>6, <1>7 DEF TokensIn
<1>12. CallEntries(f, requests(ts), entries(ts))
  BY <1>5 DEF FreshTokens, CallEntries
<1>13. ts[count] \in Nat
  BY <1>2, <1>6
<1>14. NoNewSubs
  <2>1. \A m \in requests(ts) : m.type # "SubscribeRequest"
    OBVIOUS
  <2> HIDE DEF requests
  <2>2. QED
    BY <1>10, <2>1 DEF NoNewSubs, HandedTo
<1> HIDE DEF requests, entries
<1>15. CallsMatch' /\ CallTokensBelow'
  BY <1>4, <1>8, <1>10, <1>11, <1>12, <1>13, CallsIssued
<1>16. QED
  BY <1>14, <1>15, SubsKept DEF MatchInv

LEMMA InboxNextMessageMatch ==
    ASSUME TypeInv, MatchInv, NEW f \in FileIds, NEW shortage, InboxNextMessage(f, shortage)
    PROVE  MatchInv'
<1>1. subTokens' = subTokens
  BY DEF InboxNextMessage
<1>2. \/ PopMessage(f)
      \/ \E s \in ServicesOf(f) : FlushRequests(f, s, shortage)
      \/ WouldBlock(f, shortage)
  BY DEF InboxNextMessage
<1>3. QED
  BY <1>1, <1>2, PopMessageMatch, FlushRequestsMatch, WouldBlockMatch

LEMMA StoreCreateMatch ==
    ASSUME MatchInv, NEW f \in FileIds, NEW t, NEW public, StoreCreate(f, t, public)
    PROVE  MatchInv'
BY UnchangedBoxes, NothingIssued DEF StoreCreate, tables, apps

LEMMA AnonymousStoreCreateMatch ==
    ASSUME MatchInv, NEW f \in FileIds, NEW s, AnonymousStoreCreate(f, s)
    PROVE  MatchInv'
BY UnchangedBoxes, NothingIssued DEF AnonymousStoreCreate, tables, apps

LEMMA StoreUpdateMatch ==
    ASSUME TypeInv, MatchInv, NEW f \in FileIds, NEW t \in Paths, NEW shortage,
           StoreUpdate(f, t, shortage)
    PROVE  MatchInv'
<1>1. UNCHANGED <<replyTokens, subTokens, held>>
  BY DEF StoreUpdate, tables, apps
<1>2. t \in Targets /\ nextTimestamp \in Nat
  BY PathsAreTargets DEF TypeInv, TypeOK, StoreTypes
<1>3. \/ inboxes' = inboxes
      \/ \E notices \in Reached(UpdateNotices(t, nextTimestamp), shortage) :
         \E mail \in Mailings(notices) : inboxes' = Post(inboxes, mail)
  BY DEF StoreUpdate
<1>4. \A g \in FileIds : \A m \in Contents(inboxes'[g]) :
         IsRequest(m) => m \in Contents(inboxes[g])
  BY <1>2, <1>3, UnchangedBoxes, UpdatePosted
<1>5. QED
  BY <1>1, <1>4, NothingIssued

LEMMA AnonymousStoreUpdateMatch ==
    ASSUME TypeInv, MatchInv, NEW f \in FileIds, NEW a \in AnonymousIds, NEW shortage,
           AnonymousStoreUpdate(f, a, shortage)
    PROVE  MatchInv'
<1>1. UNCHANGED <<replyTokens, subTokens, held>>
  BY DEF AnonymousStoreUpdate, tables, apps
<1>2. Anonymous(a) \in Targets /\ nextTimestamp \in Nat
  BY AnonymousIsTarget DEF TypeInv, TypeOK, StoreTypes
<1>3. \E notices \in Reached(UpdateNotices(Anonymous(a), nextTimestamp), shortage) :
      \E mail \in Mailings(notices) : inboxes' = Post(inboxes, mail)
  BY DEF AnonymousStoreUpdate
<1>4. \A g \in FileIds : \A m \in Contents(inboxes'[g]) :
         IsRequest(m) => m \in Contents(inboxes[g])
  BY <1>2, <1>3, UpdatePosted
<1>5. QED
  BY <1>1, <1>4, NothingIssued

LEMMA SubscribePublicMatch ==
    ASSUME TypeInv, MatchInv, NEW f \in FileIds, NEW t \in Paths, NEW id \in SubIds,
           NEW shortage, SubscribePublic(f, t, id, shortage)
    PROVE  MatchInv'
<1> DEFINE m == ValueMessage("Accepted", t, id, stores[t].value)
<1>1. UNCHANGED <<replyTokens, subTokens, held>>
  BY DEF SubscribePublic, tables, apps
<1>2. inboxes' = Send(inboxes, f, m, shortage)
  BY DEF SubscribePublic
<1>3. stores[t].value \in Nat
  BY DEF SubscribePublic, TypeInv, TypeOK, StoreTypes, NamedStore
<1>4. m \in Message
  BY <1>3, PathsAreTargets, MessageTypes
<1>5. ~IsRequest(m)
  BY DEF ValueMessage, IsRequest
<1> HIDE DEF m
<1>6. QED
  BY <1>1, <1>2, <1>4, <1>5, SentNoRequest, NothingIssued

(* A subscription request: its token is the counter's, and it goes to the  *)
(* file its entry names, unless there is no memory for it.                 *)
LEMMA AskMatch ==
    ASSUME TypeInv, MatchInv, NEW f \in FileIds, NEW id \in SubIds, NEW target \in Targets,
           NEW service \in FileIds, NEW shortage,
           Ask(f, id, target, service, shortage), held' = held, replyTokens' = replyTokens
    PROVE  MatchInv'
<1> DEFINE entry(ts) == [token |-> ts[1], client |-> f, service |-> service,
                         id |-> id, target |-> target]
           created(ts) == Create(subTokens, ts, {entry(ts)})
           request(ts) == SubscribeRequestOf(entry(ts))
<1>1. PICK ts \in Allocate(subTokens, 1) :
         /\ subTokens.next <= ts[1] /\ ts[1] < U64Max
         /\ inboxes' = Send(inboxes, service, request(ts), shortage)
         /\ subTokens' = IF IsAnonymous(target) /\ service \in shortage
                         THEN Discard(created(ts), {entry(ts)}) ELSE created(ts)
  BY DEF Ask
<1>2. FreshTokens(subTokens, 1, ts)
  BY AllocateGivesFreshTokens
<1>3. ts[1] \in Tokens /\ ts[1] \in Nat /\ Len(ts) = 1
  BY <1>2 DEF FreshTokens, Tokens
<1>4. entry(ts) \in PendingSubscription
  BY <1>3 DEF PendingSubscription
<1>5. created(ts) = [next    |-> ts[1] + 1,
                     pending |-> subTokens.pending \union {entry(ts)}]
  BY <1>1, <1>3, U64MaxAssumption DEF Create, Successor
<1>6. entry(ts).token = ts[1]
  OBVIOUS
<1>7. /\ request(ts).token = ts[1] /\ request(ts).type = "SubscribeRequest"
      /\ request(ts).id = id /\ request(ts).target = target
  BY DEF SubscribeRequestOf
<1>8. SubEntries(service, {request(ts)}, {entry(ts)})
  BY <1>7 DEF SubEntries
<1>9. request(ts) \in Message
  BY <1>4, MessageTypes
<1> HIDE DEF entry, request, created
<1>10. /\ subTokens'.next = ts[1] + 1
       /\ subTokens'.pending \subseteq subTokens.pending \union {entry(ts)}
  BY <1>1, <1>5 DEF Discard
<1>11. HandedTo(service, {request(ts)})
  <2>1. inboxes \in [FileIds -> MaybeInbox(Message)]
    BY DEF TypeInv, TypeOK, CallTypes, MaybeInbox
  <2>2. \A g \in FileIds : Contents(inboxes'[g]) \subseteq
            Contents(inboxes[g]) \union (IF g = service THEN {request(ts)} ELSE {})
    BY <1>1, <1>9, <2>1, ContentsOfSend
  <2>3. QED
    BY <2>2, CarriedContents, CarriedContentsPrime DEF HandedTo
<1>12. /\ TokensIn({request(ts)}, subTokens.next, ts[1])
       /\ TokensIn({entry(ts)}, subTokens.next, ts[1])
  BY <1>1, <1>3, <1>6, <1>7 DEF TokensIn
<1>13. SubsMatch' /\ SubTokensBelow'
  BY <1>1, <1>3, <1>8, <1>10, <1>11, <1>12, SubsIssued
<1>14. NoNewCalls
  BY <1>7, <1>11 DEF NoNewCalls, HandedTo
<1>15. QED
  BY <1>13, <1>14, CallsKept DEF MatchInv

LEMMA SubscribePrivateMatch ==
    ASSUME TypeInv, MatchInv, NEW f \in FileIds, NEW t \in Paths, NEW id \in SubIds,
           NEW shortage, SubscribePrivate(f, t, id, shortage)
    PROVE  MatchInv'
<1>1. services[t.service].file \in FileIds
  BY DEF TypeInv, StoresAreProvided, BoundService, SubscribePrivate
<1>2. /\ Ask(f, id, t, services[t.service].file, shortage)
      /\ held' = held /\ replyTokens' = replyTokens
  BY DEF SubscribePrivate, apps
<1>3. QED
  BY <1>1, <1>2, AskMatch, PathsAreTargets

LEMMA AnonymousStoreSubscribeMatch ==
    ASSUME TypeInv, MatchInv, NEW f \in FileIds, NEW a \in AnonymousIds, NEW id \in SubIds,
           NEW shortage, AnonymousStoreSubscribe(f, a, id, shortage)
    PROVE  MatchInv'
<1>1. anonymous[a].owner \in FileIds
  BY DEF TypeInv, TypeOK, StoreTypes, AnonymousStore, AnonymousStoreSubscribe
<1>2. /\ Ask(f, id, Anonymous(a), anonymous[a].owner, shortage)
      /\ held' = held /\ replyTokens' = replyTokens
  BY DEF AnonymousStoreSubscribe, apps
<1>3. QED
  BY <1>1, <1>2, AskMatch, AnonymousIsTarget

LEMMA StoreSubscriptionReplyMatch ==
    ASSUME TypeInv, MatchInv, NEW f \in FileIds, NEW m, NEW accepted, NEW shortage,
           StoreSubscriptionReply(f, m, accepted, shortage)
    PROVE  MatchInv'
<1> DEFINE consumed == Consumable(subTokens, m.token, f)
<1>1. /\ replyTokens' = replyTokens
      /\ held' = [held EXCEPT ![f] = held[f] \ {m}]
  BY DEF StoreSubscriptionReply
<1>2. \A g \in FileIds : held'[g] \subseteq held[g]
  BY <1>1 DEF TypeInv, TypeOK, ProcessTypes
<1>3. /\ subTokens'.next = subTokens.next
      /\ subTokens'.pending \subseteq subTokens.pending
  <2>1. subTokens' = subTokens \/ subTokens' = Discard(subTokens, consumed)
    BY DEF StoreSubscriptionReply
  <2>2. QED
    BY <2>1 DEF Discard, TypeInv, TypeOK, StoreTypes
<1>4. \A g \in FileIds : \A x \in Contents(inboxes'[g]) :
         IsRequest(x) => x \in Contents(inboxes[g])
  <2>1. CASE inboxes' = inboxes
    BY <2>1, UnchangedBoxes
  <2>2. CASE inboxes' # inboxes
    <3>1. PICK p \in consumed :
             \/ ~IsAnonymous(p.target) /\ AcceptNamed(p, shortage)
             \/ IsAnonymous(p.target) /\ AcceptAnonymous(p, shortage)
             \/ Reject(p, shortage)
      BY <2>2 DEF StoreSubscriptionReply
    <3>2. p.client \in FileIds /\ p.id \in SubIds /\ p.target \in Targets
      BY DEF Consumable, TypeInv, TypeOK, StoreTypes, PendingSubscription
    <3>3. ASSUME NEW v \in Nat,
                 inboxes' = Send(inboxes, p.client,
                               ValueMessage("Accepted", p.target, p.id, v), shortage)
          PROVE  \A g \in FileIds : \A x \in Contents(inboxes'[g]) :
                     IsRequest(x) => x \in Contents(inboxes[g])
      <4>1. ValueMessage("Accepted", p.target, p.id, v) \in Message
        BY <3>2, MessageTypes
      <4>2. ~IsRequest(ValueMessage("Accepted", p.target, p.id, v))
        BY DEF ValueMessage, IsRequest
      <4>3. QED
        BY <3>2, <3>3, <4>1, <4>2, SentNoRequest
    <3>4. CASE ~IsAnonymous(p.target) /\ AcceptNamed(p, shortage)
      <4>1. p.target \in Paths /\ stores[p.target] # Nil
        BY <2>2, <3>2, <3>4, TargetTypes DEF AcceptNamed
      <4>2. stores[p.target].value \in Nat
        BY <4>1 DEF TypeInv, TypeOK, StoreTypes, NamedStore
      <4>3. inboxes' = Send(inboxes, p.client,
               ValueMessage("Accepted", p.target, p.id, stores[p.target].value), shortage)
        BY <2>2, <3>4 DEF AcceptNamed
      <4>4. QED
        BY <3>3, <4>2, <4>3
    <3>5. CASE IsAnonymous(p.target) /\ AcceptAnonymous(p, shortage)
      <4> DEFINE a == p.target.anonymous
      <4>1. a \in AnonymousIds /\ anonymous[a] # Nil
        BY <2>2, <3>2, <3>5, TargetTypes DEF AcceptAnonymous
      <4>2. anonymous[a].value \in Nat
        BY <4>1 DEF TypeInv, TypeOK, StoreTypes, AnonymousStore
      <4>3. inboxes' = Send(inboxes, p.client,
               ValueMessage("Accepted", p.target, p.id, anonymous[a].value), shortage)
        BY <2>2, <3>5 DEF AcceptAnonymous
      <4>4. QED
        BY <3>3, <4>2, <4>3
    <3>6. CASE Reject(p, shortage)
      <4>1. EndMessage("Rejected", p.target, p.id) \in Message
        BY <3>2, MessageTypes
      <4>2. ~IsRequest(EndMessage("Rejected", p.target, p.id))
        BY DEF EndMessage, IsRequest
      <4>3. inboxes' = Send(inboxes, p.client,
               EndMessage("Rejected", p.target, p.id), shortage)
        BY <3>6 DEF Reject
      <4>4. QED
        BY <3>2, <4>1, <4>2, <4>3, SentNoRequest
    <3>7. QED
      BY <3>1, <3>4, <3>5, <3>6
  <2>3. QED
    BY <2>1, <2>2
<1>5. QED
  BY <1>1, <1>2, <1>3, <1>4, NothingIssued

LEMMA StoreUnsubscribeMatch ==
    ASSUME TypeInv, MatchInv, NEW f \in FileIds, NEW id \in SubIds, NEW shortage,
           StoreUnsubscribe(f, id, shortage)
    PROVE  MatchInv'
<1>1. UNCHANGED <<replyTokens, subTokens, held>>
  BY DEF StoreUnsubscribe, tables, apps
<1>2. \A g \in FileIds : \A x \in Contents(inboxes'[g]) :
         IsRequest(x) => x \in Contents(inboxes[g])
  <2>1. CASE inboxes' = inboxes
    BY <2>1, UnchangedBoxes
  <2>2. CASE inboxes' # inboxes
    <3>1. PICK s \in OwnSubscription(subs, f, id) :
             /\ IsAnonymous(s.target) /\ anonymous[s.target.anonymous] # Nil
             /\ inboxes' = Send(inboxes, anonymous[s.target.anonymous].owner,
                                EndMessage("Closed", s.target, id), shortage)
      BY <2>2 DEF StoreUnsubscribe
    <3>2. s.target \in Targets
      BY DEF OwnSubscription, TypeInv, TypeOK, StoreTypes, Subscription
    <3>3. s.target.anonymous \in AnonymousIds
      BY <3>1, <3>2, TargetTypes
    <3>4. anonymous[s.target.anonymous].owner \in FileIds
      BY <3>1, <3>3 DEF TypeInv, TypeOK, StoreTypes, AnonymousStore
    <3>5. EndMessage("Closed", s.target, id) \in Message
      BY <3>2, MessageTypes
    <3>6. ~IsRequest(EndMessage("Closed", s.target, id))
      BY DEF EndMessage, IsRequest
    <3>7. QED
      BY <3>1, <3>4, <3>5, <3>6, SentNoRequest
  <2>3. QED
    BY <2>1, <2>2
<1>3. QED
  BY <1>1, <1>2, NothingIssued

LEMMA CloseMatch ==
    ASSUME TypeInv, MatchInv, NEW f \in FileIds, NEW shortage, Close(f, shortage)
    PROVE  MatchInv'
<1> DEFINE told(rank) ==
               {n \in PendingNotices(f) \union OwnerNotices(f) \union ExitNotices(f, rank) :
                    n.to \notin shortage}
           all(rank) == told(rank) \union ServiceClosedNotices(f, rank, told(rank))
           boxes == [inboxes EXCEPT ![f] = Nil]
<1>1. PICK rank \in Ranks(f) : \E mail \in Mailings(all(rank)) : inboxes' = Post(boxes, mail)
  BY DEF Close
<1>2. NoRequests(all(rank))
  <2>1. GoodNotices(told(rank))
    <3>1. GoodNotices(PendingNotices(f) \union OwnerNotices(f) \union ExitNotices(f, rank))
      BY PendingNoticesTypes, OwnerNoticesTypes, ExitNoticesTypes, GoodUnion
    <3>2. QED
      BY <3>1, GoodSubset
  <2>2. News(told(rank))
    BY CloseNoticesAreNews DEF News
  <2> HIDE DEF told
  <2>3. GoodNotices(all(rank))
    <3>1. GoodNotices(ServiceClosedNotices(f, rank, told(rank)))
      BY <2>1, ServiceClosedNoticesTypes
    <3>2. QED
      BY <2>1, <3>1, GoodUnion
  <2>4. News(all(rank))
    BY <2>2, CloseNoticesAreNews DEF News
  <2> HIDE DEF all
  <2>5. QED
    BY <2>3, <2>4 DEF NoRequests, News, GoodNotices
<1> HIDE DEF told, all
<1>3. /\ boxes \in [FileIds -> MaybeInbox(Message)]
      /\ \A g \in FileIds : boxes[g] \in {Nil, inboxes[g]}
  BY DEF TypeInv, TypeOK, CallTypes, MaybeInbox
<1> HIDE DEF boxes
<1>4. \A g \in FileIds : \A x \in Contents(inboxes'[g]) :
         IsRequest(x) => x \in Contents(inboxes[g])
  BY <1>1, <1>2, <1>3, PostedNoRequest
<1>5. \A g \in FileIds : held'[g] \subseteq held[g]
  BY DEF Close, TypeInv, TypeOK, ProcessTypes
<1>6. /\ replyTokens'.next = replyTokens.next
      /\ replyTokens'.pending \subseteq replyTokens.pending
  BY DEF Close, Discard, TypeInv, TypeOK, CallTypes
<1>7. /\ subTokens'.next = subTokens.next
      /\ subTokens'.pending \subseteq subTokens.pending
  BY DEF Close, Discard, TypeInv, TypeOK, StoreTypes
<1>8. QED
  BY <1>4, <1>5, <1>6, <1>7, NothingIssued

LEMMA NextMatch == TypeInv /\ MatchInv /\ [Next]_vars => MatchInv'
<1> SUFFICES ASSUME TypeInv, MatchInv, [Next]_vars
             PROVE  MatchInv'
  OBVIOUS
<1>1. CASE UNCHANGED vars
  BY <1>1, StutterMatch
<1>2. ASSUME NEW f \in FileIds, Answer(f)
      PROVE  MatchInv'
  BY <1>2, FunctionCallReplyMatch, StoreSubscriptionReplyMatch DEF Answer
<1>3. ASSUME NEW f \in FileIds, Write(f)
      PROVE  MatchInv'
  BY <1>3, StoreCreateMatch, StoreUpdateMatch, AnonymousStoreCreateMatch,
     AnonymousStoreUpdateMatch DEF Write
<1>4. ASSUME NEW f \in FileIds, Subscribe(f)
      PROVE  MatchInv'
  BY <1>4, SubscribePublicMatch, SubscribePrivateMatch, AnonymousStoreSubscribeMatch,
     StoreUnsubscribeMatch DEF Subscribe
<1>5. QED
  BY <1>1, <1>2, <1>3, <1>4, OpenMatch, BindServiceMatch, FunctionCallMatch,
     InboxNextMessageMatch, CloseMatch DEF Next

LEMMA MatchInvariant == Spec => []MatchInv
<1>1. Init => MatchInv
  BY InitMatch
<1>2. TypeInv /\ MatchInv /\ [Next]_vars => MatchInv'
  BY NextMatch
<1>3. QED
  BY <1>1, <1>2, TypeInvariant, PTL DEF Spec

(* A token a server was given, however long ago, stands for the request it *)
(* came with or for nothing: the tables never use it for another one.      *)
THEOREM TokensStandForTheirRequests == Spec => []TokensMatchRequests
<1>1. MatchInv => TokensMatchRequests
  BY MatchInvSuffices
<1>2. QED
  BY <1>1, MatchInvariant, PTL

-------------------------------------------------------------------------------
(* Who uses up a token *)

(* The reply is the one place where an entry of a call leaves the table    *)
(* while nobody closes.                                                    *)
NoCallAnswered == replyTokens.pending \subseteq replyTokens'.pending

LEMMA InboxNextMessageAnswersNoCall ==
    ASSUME TypeInv, NEW f \in FileIds, NEW shortage, InboxNextMessage(f, shortage)
    PROVE  NoCallAnswered
<1>1. CASE PopMessage(f)
  BY <1>1 DEF PopMessage, NoCallAnswered
<1>2. ASSUME NEW s \in ServicesOf(f), FlushRequests(f, s, shortage)
      PROVE  NoCallAnswered
  <2>1. \E ts, entries : replyTokens' = Create(replyTokens, ts, entries)
    BY <1>2 DEF FlushRequests
  <2>2. QED
    BY <2>1 DEF Create, NoCallAnswered
<1>3. CASE WouldBlock(f, shortage)
  BY <1>3 DEF WouldBlock, NoCallAnswered
<1>4. QED
  BY <1>1, <1>2, <1>3 DEF InboxNextMessage

LEMMA WriteAnswersNoCall ==
    ASSUME NEW f \in FileIds, Write(f)
    PROVE  NoCallAnswered
BY DEF Write, StoreCreate, StoreUpdate, AnonymousStoreCreate, AnonymousStoreUpdate,
       tables, NoCallAnswered

LEMMA SubscribeAnswersNoCall ==
    ASSUME NEW f \in FileIds, Subscribe(f)
    PROVE  NoCallAnswered
<1>1. replyTokens' = replyTokens
  BY DEF Subscribe, SubscribePublic, SubscribePrivate, AnonymousStoreSubscribe,
         StoreUnsubscribe, tables
<1>2. QED
  BY <1>1 DEF NoCallAnswered

(* The file that replies knows the token from a request it holds, and so   *)
(* it is the file the entry names.                                         *)
LEMMA ReplyGivesUpItsRequest ==
    ASSUME TypeInv, MatchInv, NEW f \in FileIds, NEW g \in FileIds, NEW m \in held[g],
           NEW badFds, NEW shortage, FunctionCallReply(f, m, badFds, shortage),
           NEW p \in replyTokens.pending \ replyTokens'.pending
    PROVE  \E x \in held[p.service] \ held'[p.service] : x.token = p.token
<1>1. m.type = "FunctionCallRequest" /\ held' = [held EXCEPT ![f] = held[f] \ {m}]
  BY DEF FunctionCallReply
<1>2. p \in Consumable(replyTokens, m.token, f)
  <2>1. replyTokens' = Discard(replyTokens, Consumable(replyTokens, m.token, f))
    BY DEF FunctionCallReply
  <2>2. QED
    BY <2>1 DEF Discard, TypeInv, TypeOK, CallTypes
<1>3. p.token = m.token /\ p.service = f
  BY <1>2 DEF Consumable
<1>4. m \in Carried(g)
  BY DEF Carried
<1>5. p.service = g
  BY <1>1, <1>3, <1>4 DEF MatchInv, CallsMatch
<1>6. m \in held[f] /\ m \notin held'[f]
  BY <1>1, <1>3, <1>5 DEF TypeInv, TypeOK, ProcessTypes
<1>7. QED
  BY <1>3, <1>6

(* A reply is made only by the server the call was given to, and at the    *)
(* price of the request it was given: no other server can make it.         *)
THEOREM OnlyTheAddresseeAnswers == Spec => NoForgedReplies
<1> DEFINE Answered == open' = open =>
               \A p \in replyTokens.pending \ replyTokens'.pending :
                   \E m \in held[p.service] \ held'[p.service] : m.token = p.token
<1>1. TypeInv /\ MatchInv /\ [Next]_vars => [Answered]_vars
  <2> SUFFICES ASSUME TypeInv, MatchInv, Next, open' = open,
                      NEW p \in replyTokens.pending \ replyTokens'.pending
               PROVE  \E m \in held[p.service] \ held'[p.service] : m.token = p.token
    OBVIOUS
  <2>1. ~NoCallAnswered
    BY DEF NoCallAnswered
  <2>2. PICK f \in FileIds :
           \/ Open(f)
           \/ \E s \in ServiceNames : BindService(f, s)
           \/ \E s \in ServiceNames : FunctionCall(f, s)
           \/ Answer(f)
           \/ \E shortage \in Shortages : InboxNextMessage(f, shortage)
           \/ Write(f)
           \/ Subscribe(f)
           \/ \E shortage \in Shortages : Close(f, shortage)
    BY DEF Next
  <2>3. ~Open(f)
    BY <2>1 DEF Open, tables, NoCallAnswered
  <2>4. ~\E s \in ServiceNames : BindService(f, s) \/ FunctionCall(f, s)
    BY <2>1 DEF BindService, FunctionCall, tables, NoCallAnswered
  <2>5. ~\E shortage \in Shortages : Close(f, shortage)
    BY DEF Close
  <2>6. Answer(f)
    BY <2>1, <2>2, <2>3, <2>4, <2>5, InboxNextMessageAnswersNoCall,
       WriteAnswersNoCall, SubscribeAnswersNoCall
  <2>7. PICK g \in FileIds : \E m \in held[g], shortage \in Shortages :
           \/ \E badFds \in {FALSE, BadReplyFds} : FunctionCallReply(f, m, badFds, shortage)
           \/ \E accepted \in BOOLEAN : StoreSubscriptionReply(f, m, accepted, shortage)
    BY <2>6 DEF Answer
  <2>8. ~\E m, shortage, accepted : StoreSubscriptionReply(f, m, accepted, shortage)
    BY <2>1 DEF StoreSubscriptionReply, NoCallAnswered
  <2>9. QED
    BY <2>7, <2>8, ReplyGivesUpItsRequest
<1>2. QED
  BY <1>1, TypeInvariant, MatchInvariant, PTL DEF Spec, NoForgedReplies

-------------------------------------------------------------------------------
(***************************************************************************)
(* The life of a call.  Most commands leave the calls alone: they queue    *)
(* messages that are neither requests of calls nor replies.                *)
(***************************************************************************)
IsTraffic(m) == m.type \in {"FunctionCallRequest", "FunctionCallReply"}
Quiet == {m \in Message : ~IsTraffic(m)}

BoxesStay == \A g \in FileIds : inboxes[g] # Nil => inboxes'[g] # Nil
QuietBoxes ==
    /\ \A g \in FileIds : Extended(Messages(inboxes'[g]), Messages(inboxes[g]), Quiet)
    /\ BoxesStay

LEMMA SentBoxesStay ==
    ASSUME TypeInv, NEW f \in FileIds, NEW m \in Message, NEW shortage,
           inboxes' = Send(inboxes, f, m, shortage)
    PROVE  BoxesStay
<1>1. inboxes \in [FileIds -> MaybeInbox(Message)]
  BY InboxesAreTyped
<1>2. <<m>> \in Seq(Message) /\ inboxes[f] \in MaybeInbox(Message)
  BY <1>1
<1>3. QueueAll(inboxes[f], <<m>>) # Nil
  BY <1>2, BoxIsNotNil
<1>4. QED
  BY <1>1, <1>3 DEF Send, BoxesStay

LEMMA SameBoxesAreQuiet ==
    ASSUME TypeInv, inboxes' = inboxes
    PROVE  QuietBoxes
BY InboxesAreTyped, NothingAppended, MessagesAreSeq DEF QuietBoxes, BoxesStay

LEMMA SentQuietly ==
    ASSUME TypeInv, NEW f \in FileIds, NEW m \in Message, ~IsTraffic(m), NEW shortage,
           inboxes' = Send(inboxes, f, m, shortage)
    PROVE  QuietBoxes
<1> SUFFICES ASSUME NEW g \in FileIds
             PROVE  /\ Extended(Messages(inboxes'[g]), Messages(inboxes[g]), Quiet)
                    /\ inboxes[g] # Nil => inboxes'[g] # Nil
  BY DEF QuietBoxes, BoxesStay
<1>1. inboxes \in [FileIds -> MaybeInbox(Message)]
  BY InboxesAreTyped
<1>2. Extended(Messages(inboxes'[g]), Messages(inboxes[g]), IF g = f THEN {m} ELSE {})
  BY <1>1, SendExtends
<1>3. (IF g = f THEN {m} ELSE {}) \subseteq Quiet
  BY DEF Quiet
<1>4. Extended(Messages(inboxes'[g]), Messages(inboxes[g]), Quiet)
  BY <1>2, <1>3, ExtendedMore
<1>5. inboxes[g] # Nil => inboxes'[g] # Nil
  BY <1>1, SentBoxesStay DEF BoxesStay
<1>6. QED
  BY <1>4, <1>5

LEMMA PostedQuietly ==
    ASSUME NEW boxes \in [FileIds -> MaybeInbox(Message)],
           NEW notices, GoodNotices(notices), \A n \in notices : ~IsTraffic(n.message),
           NEW mail \in Mailings(notices), NEW g \in FileIds
    PROVE  /\ Extended(Messages(Post(boxes, mail)[g]), Messages(boxes[g]), Quiet)
           /\ boxes[g] # Nil => Post(boxes, mail)[g] # Nil
<1>1. Extended(Messages(Post(boxes, mail)[g]), Messages(boxes[g]), MessagesTo(notices, g))
  BY PostExtends
<1>2. MessagesTo(notices, g) \subseteq Quiet
  BY DEF MessagesTo, Quiet, GoodNotices, NoticesAreTyped
<1>3. Extended(Messages(Post(boxes, mail)[g]), Messages(boxes[g]), Quiet)
  BY <1>1, <1>2, ExtendedMore
<1>4. QED
  BY <1>3, PostedBoxesStay

LEMMA UpdatePostedQuietly ==
    ASSUME TypeInv, NEW target \in Targets, NEW value \in Nat, NEW shortage,
           \E notices \in Reached(UpdateNotices(target, value), shortage) :
           \E mail \in Mailings(notices) : inboxes' = Post(inboxes, mail)
    PROVE  QuietBoxes
<1>1. PICK notices \in Reached(UpdateNotices(target, value), shortage) :
           \E mail \in Mailings(notices) : inboxes' = Post(inboxes, mail)
  OBVIOUS
<1>2. GoodNotices(notices)
  BY <1>1, UpdateNoticesTypes DEF GoodNotices
<1>3. \A n \in notices : ~IsTraffic(n.message)
  <2>1. notices \subseteq UpdateNotices(target, value)
    BY <1>1 DEF Reached
  <2>2. QED
    BY <2>1 DEF UpdateNotices, Notice, ValueMessage, IsTraffic
<1>4. inboxes \in [FileIds -> MaybeInbox(Message)]
  BY InboxesAreTyped
<1>5. QED
  BY <1>1, <1>2, <1>3, <1>4, PostedQuietly DEF QuietBoxes, BoxesStay

(* What the commands about stores do to calls. *)
CallsAlone ==
    /\ \A s \in ServiceNames :
          \/ services'[s] = services[s]
          \/ /\ services[s] = Nil /\ services'[s] # Nil
             /\ services'[s].queue = <<>> /\ services'[s].file \in Daemons
    /\ UNCHANGED <<replyTokens, origin, lastCall, open, awaiting>>
    /\ \A g \in FileIds : \A m \in held'[g] : m \in held[g]
    /\ \A g \in FileIds : \A m \in held[g] : m \in held'[g] \/ m.type = "SubscribeRequest"
    /\ QuietBoxes

LEMMA BindServiceQuiet ==
    ASSUME TypeInv, NEW f \in FileIds, NEW s \in ServiceNames, BindService(f, s)
    PROVE  CallsAlone
<1>1. /\ UNCHANGED <<inboxes, replyTokens, origin, lastCall, open, awaiting, held>>
      /\ services' = [services EXCEPT ![s] = [file |-> f, queue |-> <<>>]]
      /\ services[s] = Nil /\ f \in Daemons
  BY DEF BindService, tables, bookkeeping, apps
<1>2. QuietBoxes
  BY <1>1, SameBoxesAreQuiet
<1>3. services'[s] = [file |-> f, queue |-> <<>>]
  BY <1>1 DEF TypeInv, TypeOK, CallTypes
<1>4. services'[s] \in BoundService
  BY <1>3, EmptySeq DEF BoundService
<1>5. services'[s] # Nil
  BY <1>4, NilAssumption DEF BoundService
<1>6. \A t \in ServiceNames : t # s => services'[t] = services[t]
  BY <1>1 DEF TypeInv, TypeOK, CallTypes
<1>7. QED
  BY <1>1, <1>2, <1>3, <1>5, <1>6 DEF CallsAlone

LEMMA WouldBlockQuiet ==
    ASSUME TypeInv, NEW f \in FileIds, NEW shortage, WouldBlock(f, shortage),
           UNCHANGED <<origin, lastCall>>, open' = open
    PROVE  CallsAlone
<1>1. /\ UNCHANGED <<services, replyTokens, held, awaiting>>
      /\ inboxes' = inboxes \/ inboxes' = [inboxes EXCEPT ![f] = Ensure(inboxes[f])]
  BY DEF WouldBlock
<1>2. inboxes \in [FileIds -> MaybeInbox(Message)]
  BY InboxesAreTyped
<1>3. \A g \in FileIds : inboxes'[g] = inboxes[g] \/ inboxes'[g] = Ensure(inboxes[g])
  BY <1>1, <1>2
<1>4. \A g \in FileIds : Messages(inboxes'[g]) = Messages(inboxes[g])
  BY <1>2, <1>3, EnsureMessages
<1>5. QuietBoxes
  BY <1>2, <1>3, <1>4, NothingAppended, MessagesAreSeq, BoxIsNotNil DEF QuietBoxes, BoxesStay
<1>6. QED
  BY <1>1, <1>5 DEF CallsAlone

LEMMA WriteQuiet ==
    ASSUME TypeInv, NEW f \in FileIds, Write(f)
    PROVE  CallsAlone
<1>1. UNCHANGED <<services, replyTokens, origin, lastCall, open, awaiting, held>>
  BY DEF Write, StoreCreate, StoreUpdate, AnonymousStoreCreate, AnonymousStoreUpdate,
         tables, bookkeeping, apps
<1>2. \/ inboxes' = inboxes
      \/ \E target \in Targets : \E shortage :
         \E notices \in Reached(UpdateNotices(target, nextTimestamp), shortage) :
         \E mail \in Mailings(notices) : inboxes' = Post(inboxes, mail)
  <2>1. ASSUME NEW t \in Paths, NEW shortage, StoreUpdate(f, t, shortage)
        PROVE  \/ inboxes' = inboxes
               \/ \E notices \in Reached(UpdateNotices(t, nextTimestamp), shortage) :
                  \E mail \in Mailings(notices) : inboxes' = Post(inboxes, mail)
    BY <2>1 DEF StoreUpdate
  <2>2. ASSUME NEW a \in AnonymousIds, NEW shortage, AnonymousStoreUpdate(f, a, shortage)
        PROVE  \E notices \in Reached(UpdateNotices(Anonymous(a), nextTimestamp), shortage) :
               \E mail \in Mailings(notices) : inboxes' = Post(inboxes, mail)
    BY <2>2 DEF AnonymousStoreUpdate
  <2>3. ASSUME NEW t, NEW public, StoreCreate(f, t, public) PROVE inboxes' = inboxes
    BY <2>3 DEF StoreCreate
  <2>4. ASSUME NEW s, AnonymousStoreCreate(f, s) PROVE inboxes' = inboxes
    BY <2>4 DEF AnonymousStoreCreate
  <2>5. QED
    BY <2>1, <2>2, <2>3, <2>4, PathsAreTargets, AnonymousIsTarget DEF Write
<1>3. nextTimestamp \in Nat
  BY DEF TypeInv, TypeOK, StoreTypes
<1>4. QuietBoxes
  BY <1>2, <1>3, SameBoxesAreQuiet, UpdatePostedQuietly
<1>5. QED
  BY <1>1, <1>4 DEF CallsAlone

LEMMA AskQuiet ==
    ASSUME TypeInv, NEW f \in FileIds, NEW id \in SubIds, NEW target \in Targets,
           NEW service \in FileIds, NEW shortage, Ask(f, id, target, service, shortage)
    PROVE  QuietBoxes
<1> DEFINE entry(ts) == [token |-> ts[1], client |-> f, service |-> service,
                         id |-> id, target |-> target]
<1>1. PICK ts \in Allocate(subTokens, 1) :
         inboxes' = Send(inboxes, service, SubscribeRequestOf(entry(ts)), shortage)
  BY DEF Ask
<1>2. FreshTokens(subTokens, 1, ts)
  BY AllocateGivesFreshTokens
<1>3. entry(ts) \in PendingSubscription
  BY <1>2 DEF PendingSubscription, FreshTokens
<1>4. SubscribeRequestOf(entry(ts)) \in Message
  BY <1>3, MessageTypes
<1>5. ~IsTraffic(SubscribeRequestOf(entry(ts)))
  BY DEF IsTraffic, SubscribeRequestOf
<1> HIDE DEF entry
<1>6. QED
  BY <1>1, <1>4, <1>5, SentQuietly

LEMMA StoreMessagesAreQuiet ==
    \A t, id, v : /\ ~IsTraffic(ValueMessage("Accepted", t, id, v))
                  /\ ~IsTraffic(EndMessage("Rejected", t, id))
                  /\ ~IsTraffic(EndMessage("Closed", t, id))
BY DEF IsTraffic, ValueMessage, EndMessage

LEMMA SubscribePublicQuiet ==
    ASSUME TypeInv, NEW f \in FileIds, NEW t \in Paths, NEW id \in SubIds,
           NEW shortage, SubscribePublic(f, t, id, shortage)
    PROVE  QuietBoxes
<1> DEFINE m == ValueMessage("Accepted", t, id, stores[t].value)
<1>1. inboxes' = Send(inboxes, f, m, shortage)
  BY DEF SubscribePublic
<1>2. stores[t].value \in Nat
  BY DEF SubscribePublic, TypeInv, TypeOK, StoreTypes, NamedStore
<1>3. m \in Message
  BY <1>2, PathsAreTargets, MessageTypes
<1>4. ~IsTraffic(m)
  BY StoreMessagesAreQuiet
<1> HIDE DEF m
<1>5. QED
  BY <1>1, <1>3, <1>4, SentQuietly

LEMMA StoreUnsubscribeQuiet ==
    ASSUME TypeInv, NEW f \in FileIds, NEW id \in SubIds, NEW shortage,
           StoreUnsubscribe(f, id, shortage)
    PROVE  QuietBoxes
<1>1. CASE inboxes' = inboxes
  BY <1>1, SameBoxesAreQuiet
<1>2. CASE inboxes' # inboxes
  <2>1. PICK s \in OwnSubscription(subs, f, id) :
           /\ IsAnonymous(s.target) /\ anonymous[s.target.anonymous] # Nil
           /\ inboxes' = Send(inboxes, anonymous[s.target.anonymous].owner,
                              EndMessage("Closed", s.target, id), shortage)
    BY <1>2 DEF StoreUnsubscribe
  <2>2. s.target \in Targets
    BY DEF OwnSubscription, TypeInv, TypeOK, StoreTypes, Subscription
  <2>3. s.target.anonymous \in AnonymousIds
    BY <2>1, <2>2, TargetTypes
  <2>4. anonymous[s.target.anonymous].owner \in FileIds
    BY <2>1, <2>3 DEF TypeInv, TypeOK, StoreTypes, AnonymousStore
  <2>5. EndMessage("Closed", s.target, id) \in Message
    BY <2>2, MessageTypes
  <2>6. QED
    BY <2>1, <2>4, <2>5, StoreMessagesAreQuiet, SentQuietly
<1>3. QED
  BY <1>1, <1>2

LEMMA SubscribeQuiet ==
    ASSUME TypeInv, NEW f \in FileIds, Subscribe(f)
    PROVE  CallsAlone
<1>1. UNCHANGED <<services, replyTokens, origin, lastCall, open, awaiting, held>>
  BY DEF Subscribe, SubscribePublic, SubscribePrivate, AnonymousStoreSubscribe,
         StoreUnsubscribe, tables, bookkeeping, apps
<1>2. QuietBoxes
  <2>1. ASSUME NEW id \in SubIds, NEW shortage, NEW t \in Paths,
               SubscribePrivate(f, t, id, shortage)
        PROVE  QuietBoxes
    <3>1. services[t.service].file \in FileIds
      BY <2>1 DEF TypeInv, StoresAreProvided, BoundService, SubscribePrivate
    <3>2. QED
      BY <2>1, <3>1, AskQuiet, PathsAreTargets DEF SubscribePrivate
  <2>2. ASSUME NEW id \in SubIds, NEW shortage, NEW a \in AnonymousIds,
               AnonymousStoreSubscribe(f, a, id, shortage)
        PROVE  QuietBoxes
    <3>1. anonymous[a].owner \in FileIds
      BY <2>2 DEF TypeInv, TypeOK, StoreTypes, AnonymousStore, AnonymousStoreSubscribe
    <3>2. QED
      BY <2>2, <3>1, AskQuiet, AnonymousIsTarget DEF AnonymousStoreSubscribe
  <2>3. QED
    BY <2>1, <2>2, SubscribePublicQuiet, StoreUnsubscribeQuiet DEF Subscribe
<1>3. QED
  BY <1>1, <1>2 DEF CallsAlone

LEMMA StoreSubscriptionReplyQuiet ==
    ASSUME TypeInv, NEW f \in FileIds, NEW m, NEW accepted, NEW shortage,
           StoreSubscriptionReply(f, m, accepted, shortage)
    PROVE  CallsAlone
<1> DEFINE consumed == Consumable(subTokens, m.token, f)
<1>1. /\ UNCHANGED <<services, replyTokens, origin, lastCall, open, awaiting>>
      /\ held' = [held EXCEPT ![f] = held[f] \ {m}]
      /\ m.type = "SubscribeRequest"
  BY DEF StoreSubscriptionReply, bookkeeping
<1>2. \A g \in FileIds : /\ held'[g] \subseteq held[g]
                         /\ \A x \in held[g] : x \in held'[g] \/ x = m
  BY <1>1 DEF TypeInv, TypeOK, ProcessTypes
<1>3. QuietBoxes
  <2>1. CASE inboxes' = inboxes
    BY <2>1, SameBoxesAreQuiet
  <2>2. CASE inboxes' # inboxes
    <3>1. PICK p \in consumed :
             \/ ~IsAnonymous(p.target) /\ AcceptNamed(p, shortage)
             \/ IsAnonymous(p.target) /\ AcceptAnonymous(p, shortage)
             \/ Reject(p, shortage)
      BY <2>2 DEF StoreSubscriptionReply
    <3>2. p.client \in FileIds /\ p.id \in SubIds /\ p.target \in Targets
      BY DEF Consumable, TypeInv, TypeOK, StoreTypes, PendingSubscription
    <3>3. ASSUME NEW v \in Nat,
                 inboxes' = Send(inboxes, p.client,
                               ValueMessage("Accepted", p.target, p.id, v), shortage)
          PROVE  QuietBoxes
      <4>1. ValueMessage("Accepted", p.target, p.id, v) \in Message
        BY <3>2, MessageTypes
      <4>2. QED
        BY <3>2, <3>3, <4>1, StoreMessagesAreQuiet, SentQuietly
    <3>4. CASE ~IsAnonymous(p.target) /\ AcceptNamed(p, shortage)
      <4>1. p.target \in Paths /\ stores[p.target] # Nil
        BY <2>2, <3>2, <3>4, TargetTypes DEF AcceptNamed
      <4>2. stores[p.target].value \in Nat
        BY <4>1 DEF TypeInv, TypeOK, StoreTypes, NamedStore
      <4>3. inboxes' = Send(inboxes, p.client,
               ValueMessage("Accepted", p.target, p.id, stores[p.target].value), shortage)
        BY <2>2, <3>4 DEF AcceptNamed
      <4>4. QED
        BY <3>3, <4>2, <4>3
    <3>5. CASE IsAnonymous(p.target) /\ AcceptAnonymous(p, shortage)
      <4> DEFINE a == p.target.anonymous
      <4>1. a \in AnonymousIds /\ anonymous[a] # Nil
        BY <2>2, <3>2, <3>5, TargetTypes DEF AcceptAnonymous
      <4>2. anonymous[a].value \in Nat
        BY <4>1 DEF TypeInv, TypeOK, StoreTypes, AnonymousStore
      <4>3. inboxes' = Send(inboxes, p.client,
               ValueMessage("Accepted", p.target, p.id, anonymous[a].value), shortage)
        BY <2>2, <3>5 DEF AcceptAnonymous
      <4>4. QED
        BY <3>3, <4>2, <4>3
    <3>6. CASE Reject(p, shortage)
      <4>1. EndMessage("Rejected", p.target, p.id) \in Message
        BY <3>2, MessageTypes
      <4>2. inboxes' = Send(inboxes, p.client,
               EndMessage("Rejected", p.target, p.id), shortage)
        BY <3>6 DEF Reject
      <4>3. QED
        BY <3>2, <4>1, <4>2, StoreMessagesAreQuiet, SentQuietly
    <3>7. QED
      BY <3>1, <3>4, <3>5, <3>6
  <2>3. QED
    BY <2>1, <2>2
<1>4. QED
  BY <1>1, <1>2, <1>3 DEF CallsAlone

(* Every step that has to do with calls is one of these. *)
LEMMA CallSteps ==
    ASSUME TypeInv, [Next]_vars
    PROVE  \/ CallsAlone
           \/ \E f \in FileIds :
                 \/ Open(f)
                 \/ \E s \in ServiceNames : FunctionCall(f, s)
                 \/ \E g \in FileIds : \E m \in held[g], shortage \in Shortages :
                    \E badFds \in {FALSE, BadReplyFds} : FunctionCallReply(f, m, badFds, shortage)
                 \/ PopMessage(f) /\ UNCHANGED <<origin, lastCall>> /\ open' = open
                 \/ \E s \in ServicesOf(f), shortage \in Shortages :
                       /\ FlushRequests(f, s, shortage)
                       /\ UNCHANGED <<origin, lastCall>> /\ open' = open
                 \/ \E shortage \in Shortages : Close(f, shortage)
<1>1. CASE UNCHANGED vars
  BY <1>1, SameBoxesAreQuiet DEF vars, CallsAlone
<1>2. ASSUME NEW f \in FileIds, NEW shortage \in Shortages, InboxNextMessage(f, shortage)
      PROVE  \/ CallsAlone
             \/ PopMessage(f) /\ UNCHANGED <<origin, lastCall>> /\ open' = open
             \/ \E s \in ServicesOf(f) :
                   /\ FlushRequests(f, s, shortage)
                   /\ UNCHANGED <<origin, lastCall>> /\ open' = open
  <2>1. UNCHANGED <<origin, lastCall>> /\ open' = open
    BY <1>2 DEF InboxNextMessage, bookkeeping
  <2>2. QED
    BY <1>2, <2>1, WouldBlockQuiet DEF InboxNextMessage
<1>3. ASSUME NEW f \in FileIds, Answer(f)
      PROVE  \/ CallsAlone
             \/ \E g \in FileIds : \E m \in held[g], shortage \in Shortages :
                \E badFds \in {FALSE, BadReplyFds} : FunctionCallReply(f, m, badFds, shortage)
  BY <1>3, StoreSubscriptionReplyQuiet DEF Answer
<1>4. QED
  BY <1>1, <1>2, <1>3, BindServiceQuiet, WriteQuiet, SubscribeQuiet DEF Next

(***************************************************************************)
(* Where a call is.  A request in the queue of a service, an entry of the  *)
(* table and a reply in an inbox are about the same call when CallOf is    *)
(* the same.                                                               *)
(***************************************************************************)
CallOf(x) == <<x.client, x.origin, x.call>>

ReplyAt(f, i) ==
    i \in DOMAIN MessagesOf(f) /\ MessagesOf(f)[i].type = "FunctionCallReply"

IsQueued(c) ==
    \E s \in ServiceNames : \E i \in DOMAIN QueueOf(s) : CallOf(QueueOf(s)[i]) = c
IsGiven(c) == \E p \in replyTokens.pending : CallOf(p) = c
IsAnswered(c) ==
    \E f \in FileIds : \E i \in Nat : ReplyAt(f, i) /\ CallOf(MessagesOf(f)[i]) = c

(* A call has not been made before the counter of its connection says so.  *)
Made(c) ==
    /\ c[1] \in FileIds /\ c[2] \in Nat /\ c[3] \in Nat
    /\ c[2] < origin[c[1]] \/ (c[2] = origin[c[1]] /\ c[3] <= lastCall[c[1]])

(* In the queues, in the table and in the inboxes a call is only once.     *)
QueuedOnce ==
    \A s, t \in ServiceNames : \A i \in DOMAIN QueueOf(s), j \in DOMAIN QueueOf(t) :
        CallOf(QueueOf(s)[i]) = CallOf(QueueOf(t)[j]) => s = t /\ i = j
GivenOnce ==
    \A p, q \in replyTokens.pending : CallOf(p) = CallOf(q) => p = q
AnsweredOnce ==
    \A f, g \in FileIds : \A i, j \in Nat :
        /\ ReplyAt(f, i) /\ ReplyAt(g, j)
        /\ CallOf(MessagesOf(f)[i]) = CallOf(MessagesOf(g)[j])
        => f = g /\ i = j

(* It is in one of them only, and it was made.                             *)
OnePlace ==
    \A c : /\ ~(IsQueued(c) /\ IsGiven(c))
           /\ ~(IsQueued(c) /\ IsAnswered(c))
           /\ ~(IsGiven(c) /\ IsAnswered(c))
AllMade == \A c : IsQueued(c) \/ IsGiven(c) \/ IsAnswered(c) => Made(c)

LifeInv == QueuedOnce /\ GivenOnce /\ AnsweredOnce /\ OnePlace /\ AllMade

LEMMA MadeStays ==
    ASSUME TypeInv, NEW c, Made(c),
           \A f \in FileIds : \/ origin'[f] > origin[f]
                              \/ origin'[f] = origin[f] /\ lastCall'[f] >= lastCall[f],
           TypeInv'
    PROVE  Made(c)'
<1>1. /\ c[1] \in FileIds /\ c[2] \in Nat /\ c[3] \in Nat
      /\ c[2] < origin[c[1]] \/ (c[2] = origin[c[1]] /\ c[3] <= lastCall[c[1]])
  BY DEF Made
<1>2. /\ origin[c[1]] \in Nat /\ lastCall[c[1]] \in Nat
      /\ origin'[c[1]] \in Nat /\ lastCall'[c[1]] \in Nat
  BY <1>1 DEF TypeInv, TypeOK, FileTypes
<1>3. \/ origin'[c[1]] > origin[c[1]]
      \/ origin'[c[1]] = origin[c[1]] /\ lastCall'[c[1]] >= lastCall[c[1]]
  BY <1>1
<1>4. c[2] < origin'[c[1]] \/ (c[2] = origin'[c[1]] /\ c[3] <= lastCall'[c[1]])
  BY <1>1, <1>2, <1>3
<1>5. QED
  BY <1>1, <1>4 DEF Made

(* Queues that only lose calls. *)
LEMMA QueuesShrink ==
    ASSUME \A s \in ServiceNames : QueueOf(s)' = QueueOf(s) \/ QueueOf(s)' = <<>>
    PROVE  /\ \A c : IsQueued(c)' => IsQueued(c)
           /\ QueuedOnce => QueuedOnce'
<1>1. \A s \in ServiceNames : \A i \in DOMAIN QueueOf(s)' :
         i \in DOMAIN QueueOf(s) /\ QueueOf(s)'[i] = QueueOf(s)[i]
  OBVIOUS
<1>2. \A c : IsQueued(c)' => IsQueued(c)
  BY <1>1 DEF IsQueued
<1>3. QueuedOnce => QueuedOnce'
  BY <1>1 DEF QueuedOnce
<1>4. QED
  BY <1>2, <1>3

(* Inboxes into which no reply came: those there are were there before,    *)
(* all of them as many places further back.                                *)
RepliesFrom(shift) ==
    \A f \in FileIds : \A i \in Nat : ReplyAt(f, i)' =>
        /\ i + shift[f] \in Nat
        /\ ReplyAt(f, i + shift[f])
        /\ MessagesOf(f)'[i] = MessagesOf(f)[i + shift[f]]

LEMMA RepliesShrink ==
    ASSUME NEW shift \in [FileIds -> Nat], RepliesFrom(shift)
    PROVE  /\ \A c : IsAnswered(c)' => IsAnswered(c)
           /\ AnsweredOnce => AnsweredOnce'
<1>1. \A c : IsAnswered(c)' => IsAnswered(c)
  BY DEF IsAnswered, RepliesFrom
<1>2. ASSUME AnsweredOnce, NEW f \in FileIds, NEW g \in FileIds, NEW i \in Nat, NEW j \in Nat,
             ReplyAt(f, i)', ReplyAt(g, j)',
             CallOf(MessagesOf(f)'[i]) = CallOf(MessagesOf(g)'[j])
      PROVE  f = g /\ i = j
  <2>1. /\ i + shift[f] \in Nat /\ ReplyAt(f, i + shift[f])
        /\ MessagesOf(f)'[i] = MessagesOf(f)[i + shift[f]]
    BY <1>2 DEF RepliesFrom
  <2>2. /\ j + shift[g] \in Nat /\ ReplyAt(g, j + shift[g])
        /\ MessagesOf(g)'[j] = MessagesOf(g)[j + shift[g]]
    BY <1>2 DEF RepliesFrom
  <2>3. f = g /\ i + shift[f] = j + shift[g]
    BY <1>2, <2>1, <2>2 DEF AnsweredOnce
  <2>4. shift[f] \in Nat
    OBVIOUS
  <2>5. QED
    BY <2>3, <2>4
<1>3. AnsweredOnce => AnsweredOnce'
  BY <1>2 DEF AnsweredOnce, CallOf
<1>4. QED
  BY <1>1, <1>3

LEMMA ExtendedReplies ==
    ASSUME TypeInv, TypeInv', NEW f \in FileIds, NEW A,
           Extended(Messages(inboxes'[f]), Messages(inboxes[f]), A),
           \A m \in A : m.type # "FunctionCallReply", NEW i \in Nat, ReplyAt(f, i)'
    PROVE  ReplyAt(f, i) /\ MessagesOf(f)'[i] = MessagesOf(f)[i]
<1>1. /\ MessagesOf(f) = Messages(inboxes[f]) /\ MessagesOf(f) \in Seq(Message)
      /\ Len(MessagesOf(f)) \in Nat
  BY InboxesAreTyped
<1>2. MessagesOf(f)' = Messages(inboxes'[f])
  BY PrimedMessages
<1>3. MessagesOf(f)' \in Seq(Message) /\ Len(MessagesOf(f)') \in Nat
  <2>1. inboxes' \in [FileIds -> MaybeInbox(Message)]
    BY DEF TypeInv, TypeOK, CallTypes, MaybeInbox
  <2>2. QED
    BY <1>2, <2>1, MessagesAreSeq
<1>4. i \in DOMAIN MessagesOf(f)' /\ MessagesOf(f)'[i].type = "FunctionCallReply"
  BY DEF ReplyAt
<1>5. /\ i \in 1 .. Len(MessagesOf(f)')
      /\ DOMAIN MessagesOf(f) = 1 .. Len(MessagesOf(f))
  BY <1>1, <1>3, <1>4, LenProperties
<1>6. ~(i \in Len(MessagesOf(f)) + 1 .. Len(MessagesOf(f)'))
  BY <1>1, <1>2, <1>4 DEF Extended
<1>7. i \in 1 .. Len(MessagesOf(f))
  BY <1>1, <1>3, <1>5, <1>6
<1>8. MessagesOf(f)'[i] = MessagesOf(f)[i]
  BY <1>1, <1>2, <1>7 DEF Extended
<1>9. QED
  BY <1>4, <1>5, <1>7, <1>8 DEF ReplyAt

(* A step that makes no call, gives none and answers none: calls may end.  *)
OnlyEnds ==
    /\ \A c : IsQueued(c)' => IsQueued(c)
    /\ replyTokens'.pending \subseteq replyTokens.pending
    /\ \A c : IsAnswered(c)' => IsAnswered(c)
    /\ \A c : Made(c) => Made(c)'

LEMMA NothingBegins ==
    ASSUME TypeInv, TypeInv', LifeInv,
           \A s \in ServiceNames : QueueOf(s)' = QueueOf(s) \/ QueueOf(s)' = <<>>,
           replyTokens'.pending \subseteq replyTokens.pending,
           NEW shift \in [FileIds -> Nat], RepliesFrom(shift),
           \A f \in FileIds : \/ origin'[f] > origin[f]
                              \/ origin'[f] = origin[f] /\ lastCall'[f] >= lastCall[f]
    PROVE  LifeInv' /\ OnlyEnds
<1>1. (\A c : IsQueued(c)' => IsQueued(c)) /\ QueuedOnce'
  BY QueuesShrink DEF LifeInv
<1>2. (\A c : IsAnswered(c)' => IsAnswered(c)) /\ AnsweredOnce'
  BY RepliesShrink DEF LifeInv
<1>3. (\A c : IsGiven(c)' => IsGiven(c)) /\ GivenOnce'
  BY DEF IsGiven, GivenOnce, LifeInv, CallOf
<1>4. OnePlace'
  BY <1>1, <1>2, <1>3 DEF LifeInv, OnePlace
<1>5. \A c : Made(c) => Made(c)'
  BY MadeStays
<1>6. AllMade'
  BY <1>1, <1>2, <1>3, <1>5 DEF LifeInv, AllMade
<1>7. QED
  BY <1>1, <1>2, <1>3, <1>4, <1>5, <1>6 DEF LifeInv, OnlyEnds

LEMMA InitLife == Init => LifeInv
<1> SUFFICES ASSUME Init PROVE LifeInv
  OBVIOUS
<1>1. \A s \in ServiceNames : QueueOf(s) = <<>>
  BY DEF Init, QueueOf
<1>2. \A f \in FileIds : MessagesOf(f) = <<>>
  BY DEF Init, MessagesOf
<1>3. replyTokens.pending = {}
  BY DEF Init, NoTokens
<1>4. \A c : ~IsQueued(c) /\ ~IsGiven(c) /\ ~IsAnswered(c)
  BY <1>1, <1>2, <1>3 DEF IsQueued, IsGiven, IsAnswered, ReplyAt
<1>5. QueuedOnce /\ GivenOnce /\ AnsweredOnce
  BY <1>1, <1>2, <1>3 DEF QueuedOnce, GivenOnce, AnsweredOnce, ReplyAt
<1>6. QED
  BY <1>4, <1>5 DEF LifeInv, OnePlace, AllMade

(* What an inbox is extended by. *)
LEMMA NoReplyAppended ==
    ASSUME TypeInv, TypeInv', NEW A, \A m \in A : m.type # "FunctionCallReply",
           \A f \in FileIds : Extended(Messages(inboxes'[f]), Messages(inboxes[f]), A)
    PROVE  \E shift \in [FileIds -> Nat] : RepliesFrom(shift)
<1> DEFINE shift == [f \in FileIds |-> 0]
<1>1. shift \in [FileIds -> Nat]
  OBVIOUS
<1>2. RepliesFrom(shift)
  <2>1. \A f \in FileIds : \A i \in Nat : ReplyAt(f, i)' =>
           ReplyAt(f, i) /\ MessagesOf(f)'[i] = MessagesOf(f)[i]
    BY ExtendedReplies
  <2>2. \A f \in FileIds : \A i \in Nat : i + shift[f] = i
    OBVIOUS
  <2> HIDE DEF shift
  <2>3. QED
    BY <2>1, <2>2 DEF RepliesFrom
<1>3. QED
  BY <1>1, <1>2

LEMMA QuietHasNoReply == \A m \in Quiet : m.type \notin {"FunctionCallReply", "FunctionCallRequest"}
BY DEF Quiet, IsTraffic

LEMMA CountersStay ==
    ASSUME TypeInv, UNCHANGED <<origin, lastCall>>
    PROVE  \A f \in FileIds : \/ origin'[f] > origin[f]
                              \/ origin'[f] = origin[f] /\ lastCall'[f] >= lastCall[f]
BY DEF TypeInv, TypeOK, FileTypes

LEMMA CallsAloneLife ==
    ASSUME TypeInv, TypeInv', LifeInv, CallsAlone
    PROVE  LifeInv' /\ OnlyEnds
<1>1. \A s \in ServiceNames : QueueOf(s)' = QueueOf(s) \/ QueueOf(s)' = <<>>
  BY DEF CallsAlone, QueueOf
<1>2. PICK shift \in [FileIds -> Nat] : RepliesFrom(shift)
  BY QuietHasNoReply, NoReplyAppended DEF CallsAlone, QuietBoxes
<1>3. QED
  BY <1>1, <1>2, CountersStay, NothingBegins DEF CallsAlone

LEMMA OpenLife ==
    ASSUME TypeInv, TypeInv', LifeInv, NEW f \in FileIds, Open(f)
    PROVE  LifeInv' /\ OnlyEnds
<1>1. /\ UNCHANGED <<services, inboxes, replyTokens>>
      /\ origin' = [origin EXCEPT ![f] = origin[f] + 1]
      /\ lastCall' = [lastCall EXCEPT ![f] = 0]
  BY DEF Open, tables
<1>2. \A s \in ServiceNames : QueueOf(s)' = QueueOf(s) \/ QueueOf(s)' = <<>>
  BY <1>1 DEF QueueOf
<1>3. PICK shift \in [FileIds -> Nat] : RepliesFrom(shift)
  BY <1>1, SameBoxesAreQuiet, QuietHasNoReply, NoReplyAppended DEF QuietBoxes
<1>4. \A g \in FileIds : \/ origin'[g] > origin[g]
                         \/ origin'[g] = origin[g] /\ lastCall'[g] >= lastCall[g]
  BY <1>1 DEF TypeInv, TypeOK, FileTypes
<1>5. QED
  BY <1>1, <1>2, <1>3, <1>4, NothingBegins

(* The messages of the inbox of f move one place up. *)
LEMMA PoppedReplies ==
    ASSUME TypeInv, TypeInv', NEW f \in FileIds, PopMessage(f)
    PROVE  /\ \A g \in FileIds : g # f => MessagesOf(g)' = MessagesOf(g)
           /\ MessagesOf(f) # <<>> /\ MessagesOf(f)' = Tail(MessagesOf(f))
           /\ \A i \in Nat : ReplyAt(f, i)' =>
                 /\ i \in 1 .. Len(MessagesOf(f)) - 1
                 /\ ReplyAt(f, i + 1) /\ MessagesOf(f)'[i] = MessagesOf(f)[i + 1]
<1>1. /\ \A g \in FileIds : g # f => MessagesOf(g)' = MessagesOf(g)
      /\ MessagesOf(f) # <<>> /\ MessagesOf(f)' = Tail(MessagesOf(f))
      /\ DOMAIN MessagesOf(f)' = 1 .. Len(MessagesOf(f)) - 1
      /\ \A i \in 1 .. Len(MessagesOf(f)) - 1 :
            MessagesOf(f)'[i] = MessagesOf(f)[i + 1] /\ i + 1 \in 1 .. Len(MessagesOf(f))
  BY PoppedMessages
<1>2. DOMAIN MessagesOf(f) = 1 .. Len(MessagesOf(f))
  BY InboxesAreTyped, LenProperties
<1>3. QED
  BY <1>1, <1>2 DEF ReplyAt

LEMMA PopMessageLife ==
    ASSUME TypeInv, TypeInv', LifeInv, NEW f \in FileIds, PopMessage(f),
           UNCHANGED <<origin, lastCall>>
    PROVE  LifeInv' /\ OnlyEnds
<1> DEFINE shift == [g \in FileIds |-> IF g = f THEN 1 ELSE 0]
<1>1. UNCHANGED <<services, replyTokens>>
  BY DEF PopMessage
<1>2. \A s \in ServiceNames : QueueOf(s)' = QueueOf(s) \/ QueueOf(s)' = <<>>
  BY <1>1 DEF QueueOf
<1>3. shift \in [FileIds -> Nat] /\ shift[f] = 1 /\ \A g \in FileIds : g # f => shift[g] = 0
  OBVIOUS
<1> HIDE DEF shift
<1>4. RepliesFrom(shift)
  <2>1. ASSUME NEW g \in FileIds, NEW i \in Nat, ReplyAt(g, i)', g # f
        PROVE  ReplyAt(g, i) /\ MessagesOf(g)'[i] = MessagesOf(g)[i]
    BY <2>1, PoppedReplies DEF ReplyAt
  <2>2. \A i \in Nat : i + 0 = i /\ i + 1 \in Nat
    OBVIOUS
  <2>3. QED
    BY <1>3, <2>1, <2>2, PoppedReplies DEF RepliesFrom
<1>5. QED
  BY <1>1, <1>2, <1>3, <1>4, CountersStay, NothingBegins

LEMMA CloseQuiet ==
    ASSUME TypeInv, NEW f \in FileIds, NEW shortage, Close(f, shortage)
    PROVE  \A g \in FileIds :
               Extended(Messages(inboxes'[g]), IF g = f THEN <<>> ELSE Messages(inboxes[g]), Quiet)
<1>1. Ends \subseteq Quiet
  BY DEF Ends, Quiet, IsTraffic
<1>2. QED
  BY <1>1, CloseExtends, ExtendedMore

LEMMA CloseLife ==
    ASSUME TypeInv, TypeInv', LifeInv, NEW f \in FileIds, NEW shortage, Close(f, shortage)
    PROVE  LifeInv' /\ OnlyEnds
<1> DEFINE shift == [g \in FileIds |-> 0]
<1>1. /\ services' = [s \in ServiceNames |-> IF s \in ServicesOf(f) THEN Nil ELSE services[s]]
      /\ UNCHANGED <<origin, lastCall>>
      /\ replyTokens'.pending \subseteq replyTokens.pending
  BY DEF Close, Discard, TypeInv, TypeOK, CallTypes
<1>2. \A s \in ServiceNames : QueueOf(s)' = QueueOf(s) \/ QueueOf(s)' = <<>>
  BY <1>1 DEF QueueOf
<1>3. shift \in [FileIds -> Nat] /\ \A g \in FileIds : shift[g] = 0
  OBVIOUS
<1> HIDE DEF shift
<1>4. RepliesFrom(shift)
  <2>1. ASSUME NEW g \in FileIds, NEW i \in Nat, ReplyAt(g, i)', g # f
        PROVE  ReplyAt(g, i) /\ MessagesOf(g)'[i] = MessagesOf(g)[i]
    <3>1. Extended(Messages(inboxes'[g]), Messages(inboxes[g]), Quiet)
      BY <2>1, CloseQuiet
    <3>2. QED
      BY <2>1, <3>1, QuietHasNoReply, ExtendedReplies
  <2>2. ASSUME NEW i \in Nat PROVE ~ReplyAt(f, i)'
    <3>1. MessagesOf(f)' = Messages(inboxes'[f])
      BY PrimedMessages
    <3>2. MessagesOf(f)' \in Seq(Message) /\ Len(MessagesOf(f)') \in Nat
      <4>1. inboxes' \in [FileIds -> MaybeInbox(Message)]
        BY DEF TypeInv, TypeOK, CallTypes, MaybeInbox
      <4>2. QED
        BY <3>1, <4>1, MessagesAreSeq
    <3>3. DOMAIN MessagesOf(f)' = 1 .. Len(MessagesOf(f)')
      BY <3>2, LenProperties
    <3>4. \A j \in 1 .. Len(MessagesOf(f)') : MessagesOf(f)'[j] \in Quiet
      <4>1. Extended(MessagesOf(f)', <<>>, Quiet)
        BY <3>1, CloseQuiet
      <4>2. Len(<<>>) = 0
        OBVIOUS
      <4>3. QED
        BY <3>2, <4>1, <4>2 DEF Extended
    <3>5. QED
      BY <3>3, <3>4, QuietHasNoReply DEF ReplyAt
  <2>3. \A i \in Nat : i + 0 = i
    OBVIOUS
  <2>4. QED
    BY <1>3, <2>1, <2>2, <2>3 DEF RepliesFrom
<1>5. QED
  BY <1>1, <1>2, <1>3, <1>4, CountersStay, NothingBegins

(* A call is made: it gets the last place of the queue, and a number that  *)
(* no call of the connection had before.                                   *)
LEMMA FunctionCallEffect ==
    ASSUME TypeInv, TypeInv', NEW f \in FileIds, NEW s \in ServiceNames, FunctionCall(f, s)
    PROVE  LET new == [client |-> f, origin |-> origin[f], call |-> lastCall[f] + 1]
           IN  /\ QueueOf(s) \in Seq(QueuedRequest)
               /\ QueueOf(s)' = Append(QueueOf(s), new)
               /\ \A t \in ServiceNames : t # s => services'[t] = services[t]
               /\ services[s] # Nil /\ services'[s] # Nil
               /\ services'[s].file = services[s].file
               /\ \A g \in FileIds : MessagesOf(g)' = MessagesOf(g)
               /\ UNCHANGED <<replyTokens, origin, held>>
               /\ lastCall' = [lastCall EXCEPT ![f] = lastCall[f] + 1]
<1> DEFINE new == [client |-> f, origin |-> origin[f], call |-> lastCall[f] + 1]
<1>1. /\ services[s] # Nil
      /\ services' = [services EXCEPT ![s].queue = Append(services[s].queue, new)]
      /\ inboxes' = [inboxes EXCEPT ![services[s].file] = Notify(inboxes[services[s].file])]
      /\ UNCHANGED <<replyTokens, origin, held>>
      /\ lastCall' = [lastCall EXCEPT ![f] = lastCall[f] + 1]
  BY DEF FunctionCall, tables
<1>2. services[s] \in BoundService /\ services \in [ServiceNames -> BoundService \union {Nil}]
  BY <1>1 DEF TypeInv, TypeOK, CallTypes, BoundService
<1>3. services'[s] = [services[s] EXCEPT !.queue = Append(services[s].queue, new)]
  BY <1>1, <1>2
<1>4. /\ services'[s].queue = Append(services[s].queue, new)
      /\ services'[s].file = services[s].file
  BY <1>2, <1>3 DEF BoundService
<1>5. services[s].queue \in Seq(QueuedRequest)
  BY <1>2 DEF BoundService
<1>6. services'[s] # Nil
  <2>1. lastCall[f] + 1 \in CallIds
    BY MotherboardAssumption DEF FunctionCall, CallIds, TypeInv, TypeOK, FileTypes
  <2>2. new \in QueuedRequest
    BY <2>1 DEF QueuedRequest, TypeInv, TypeOK, FileTypes
  <2>3. Append(services[s].queue, new) \in Seq(QueuedRequest)
    BY <1>5, <2>2
  <2>4. services'[s] \in [file : FileIds, queue : Seq(QueuedRequest)]
    BY <1>2, <1>3, <2>3 DEF BoundService
  <2>5. QED
    BY <2>4, NilAssumption
<1>7. \A g \in FileIds : MessagesOf(g)' = MessagesOf(g)
  <2>1. inboxes \in [FileIds -> MaybeInbox(Message)]
    BY InboxesAreTyped
  <2>2. \A g \in FileIds : inboxes'[g] = inboxes[g] \/ inboxes'[g] = Notify(inboxes[g])
    BY <1>1, <2>1
  <2>3. \A g \in FileIds : Messages(inboxes'[g]) = Messages(inboxes[g])
    BY <2>1, <2>2, NotifyMessages
  <2>4. QED
    BY <2>3, InboxesAreTyped, PrimedMessages
<1>8. QueueOf(s) = services[s].queue /\ QueueOf(s)' = services'[s].queue
  BY <1>1, <1>6 DEF QueueOf
<1>9. \A t \in ServiceNames : t # s => services'[t] = services[t]
  BY <1>1, <1>2
<1>10. QED
  BY <1>1, <1>4, <1>5, <1>6, <1>7, <1>8, <1>9

LEMMA FunctionCallLife ==
    ASSUME TypeInv, TypeInv', LifeInv, NEW f \in FileIds, NEW s \in ServiceNames,
           FunctionCall(f, s)
    PROVE  LifeInv'
<1> PICK new : new = [client |-> f, origin |-> origin[f], call |-> lastCall[f] + 1]
  OBVIOUS
<1> PICK c0 : c0 = CallOf(new)
  OBVIOUS
<1>1. /\ QueueOf(s) \in Seq(QueuedRequest)
      /\ QueueOf(s)' = Append(QueueOf(s), new)
      /\ \A t \in ServiceNames : t # s => services'[t] = services[t]
      /\ \A g \in FileIds : MessagesOf(g)' = MessagesOf(g)
      /\ UNCHANGED <<replyTokens, origin>>
      /\ lastCall' = [lastCall EXCEPT ![f] = lastCall[f] + 1]
  BY FunctionCallEffect
<1>2. /\ Len(QueueOf(s)) \in Nat
      /\ DOMAIN QueueOf(s) = 1 .. Len(QueueOf(s))
      /\ DOMAIN QueueOf(s)' = 1 .. Len(QueueOf(s)) + 1
      /\ QueueOf(s)'[Len(QueueOf(s)) + 1] = new
      /\ \A i \in DOMAIN QueueOf(s) : QueueOf(s)'[i] = QueueOf(s)[i]
  BY <1>1, LenProperties
<1>3. \A t \in ServiceNames : t # s => QueueOf(t)' = QueueOf(t)
  BY <1>1 DEF QueueOf
<1>4. origin[f] \in Nat /\ lastCall[f] \in Nat
  BY DEF TypeInv, TypeOK, FileTypes
<1>5. ~Made(c0)
  BY <1>4 DEF Made, CallOf
<1>6. Made(c0)'
  BY <1>1, <1>4 DEF Made, CallOf, TypeInv, TypeOK, FileTypes
<1>7. \A c : Made(c) => Made(c)'
  <2>1. \A g \in FileIds : \/ origin'[g] > origin[g]
                           \/ origin'[g] = origin[g] /\ lastCall'[g] >= lastCall[g]
    BY <1>1 DEF TypeInv, TypeOK, FileTypes
  <2>2. QED
    BY <2>1, MadeStays
<1>8. ~IsQueued(c0) /\ ~IsGiven(c0) /\ ~IsAnswered(c0)
  BY <1>5 DEF LifeInv, AllMade
<1>9. \A t \in ServiceNames : \A i \in DOMAIN QueueOf(t)' :
         \/ i \in DOMAIN QueueOf(t) /\ QueueOf(t)'[i] = QueueOf(t)[i]
         \/ t = s /\ i = Len(QueueOf(s)) + 1 /\ QueueOf(t)'[i] = new
  BY <1>2, <1>3
<1>10. \A t \in ServiceNames : \A i \in DOMAIN QueueOf(t) : CallOf(QueueOf(t)[i]) # c0
  BY <1>8 DEF IsQueued
<1>11. \A c : IsQueued(c)' => IsQueued(c) \/ c = c0
  BY <1>9 DEF IsQueued
<1>12. \A c : (IsGiven(c)' <=> IsGiven(c)) /\ (IsAnswered(c)' <=> IsAnswered(c))
  BY <1>1 DEF IsGiven, IsAnswered, ReplyAt
<1>13. QueuedOnce'
  <2>1. ASSUME NEW t \in ServiceNames, NEW u \in ServiceNames,
               NEW i \in DOMAIN QueueOf(t)', NEW j \in DOMAIN QueueOf(u)',
               CallOf(QueueOf(t)'[i]) = CallOf(QueueOf(u)'[j])
        PROVE  t = u /\ i = j
    BY <1>9, <1>10, <2>1 DEF LifeInv, QueuedOnce
  <2>2. QED
    BY <2>1 DEF QueuedOnce, CallOf
<1>14. GivenOnce' /\ AnsweredOnce'
  BY <1>1 DEF LifeInv, GivenOnce, AnsweredOnce, ReplyAt
<1>15. OnePlace'
  BY <1>8, <1>11, <1>12 DEF LifeInv, OnePlace
<1>16. AllMade'
  BY <1>6, <1>7, <1>11, <1>12 DEF LifeInv, AllMade
<1>17. QED
  BY <1>13, <1>14, <1>15, <1>16 DEF LifeInv

(* A call is answered: an entry leaves the table, and unless the reply is  *)
(* lost it takes the last place of an inbox.                               *)
LEMMA FunctionCallReplyEffect ==
    ASSUME TypeInv, NEW f \in FileIds, NEW m, NEW badFds, NEW shortage,
           FunctionCallReply(f, m, badFds, shortage)
    PROVE  /\ UNCHANGED <<services, origin, lastCall>>
           /\ held' = [held EXCEPT ![f] = held[f] \ {m}]
           /\ \/ replyTokens' = replyTokens /\ \A g \in FileIds : MessagesOf(g)' = MessagesOf(g)
              \/ \E p \in Consumable(replyTokens, m.token, f) :
                    /\ replyTokens' = Discard(replyTokens, Consumable(replyTokens, m.token, f))
                    /\ \/ \A g \in FileIds : MessagesOf(g)' = MessagesOf(g)
                       \/ \A g \in FileIds : MessagesOf(g)' =
                             IF g = p.client THEN Append(MessagesOf(g), CallReplyOf(p))
                             ELSE MessagesOf(g)
<1> DEFINE consumed == Consumable(replyTokens, m.token, f)
<1>1. /\ UNCHANGED <<services, origin, lastCall>>
      /\ held' = [held EXCEPT ![f] = held[f] \ {m}]
      /\ \/ UNCHANGED <<replyTokens, inboxes>>
         \/ \E p \in consumed :
               /\ replyTokens' = Discard(replyTokens, consumed)
               /\ \/ UNCHANGED inboxes
                  \/ inboxes' = Send(inboxes, p.client, CallReplyOf(p), shortage)
  BY DEF FunctionCallReply, bookkeeping
<1>2. inboxes' = inboxes => \A g \in FileIds : MessagesOf(g)' = MessagesOf(g)
  BY DEF MessagesOf
<1>3. ASSUME NEW p \in consumed, inboxes' = Send(inboxes, p.client, CallReplyOf(p), shortage)
      PROVE  \/ \A g \in FileIds : MessagesOf(g)' = MessagesOf(g)
             \/ \A g \in FileIds : MessagesOf(g)' =
                   IF g = p.client THEN Append(MessagesOf(g), CallReplyOf(p)) ELSE MessagesOf(g)
  <2>1. p \in PendingReply
    BY DEF Consumable, TypeInv, TypeOK, CallTypes
  <2>2. p.client \in FileIds /\ CallReplyOf(p) \in Message
    BY <2>1, MessageTypes DEF PendingReply
  <2>3. \A g \in FileIds : MessagesOf(g)' =
           IF g = p.client /\ p.client \notin shortage
           THEN Append(MessagesOf(g), CallReplyOf(p)) ELSE MessagesOf(g)
    BY <1>3, <2>2, SentMessages
  <2>4. QED
    BY <2>3
<1>4. QED
  BY <1>1, <1>2, <1>3

LEMMA FunctionCallReplyLife ==
    ASSUME TypeInv, TypeInv', LifeInv, NEW f \in FileIds, NEW m, NEW badFds, NEW shortage,
           FunctionCallReply(f, m, badFds, shortage)
    PROVE  LifeInv'
<1> DEFINE consumed == Consumable(replyTokens, m.token, f)
<1>1. /\ UNCHANGED <<services, origin, lastCall>>
      /\ \/ replyTokens' = replyTokens /\ \A g \in FileIds : MessagesOf(g)' = MessagesOf(g)
         \/ \E p \in consumed :
               /\ replyTokens' = Discard(replyTokens, consumed)
               /\ \/ \A g \in FileIds : MessagesOf(g)' = MessagesOf(g)
                  \/ \A g \in FileIds : MessagesOf(g)' =
                        IF g = p.client THEN Append(MessagesOf(g), CallReplyOf(p))
                        ELSE MessagesOf(g)
  BY FunctionCallReplyEffect
<1>2. \A s \in ServiceNames : QueueOf(s)' = QueueOf(s) \/ QueueOf(s)' = <<>>
  BY <1>1 DEF QueueOf
<1>3. /\ replyTokens'.pending \subseteq replyTokens.pending
      /\ replyTokens' = Discard(replyTokens, consumed) => consumed \cap replyTokens'.pending = {}
  BY <1>1 DEF Discard, TypeInv, TypeOK, CallTypes
<1>4. CASE \A g \in FileIds : MessagesOf(g)' = MessagesOf(g)
  <2> DEFINE shift == [g \in FileIds |-> 0]
  <2>1. shift \in [FileIds -> Nat] /\ \A g \in FileIds : shift[g] = 0
    OBVIOUS
  <2> HIDE DEF shift
  <2>2. RepliesFrom(shift)
    <3>1. \A i \in Nat : i + 0 = i
      OBVIOUS
    <3>2. QED
      BY <1>4, <2>1, <3>1 DEF RepliesFrom, ReplyAt
  <2>3. QED
    BY <1>1, <1>2, <1>3, <2>1, <2>2, CountersStay, NothingBegins
<1>5. ASSUME NEW p \in consumed, replyTokens' = Discard(replyTokens, consumed),
             \A g \in FileIds : MessagesOf(g)' =
                 IF g = p.client THEN Append(MessagesOf(g), CallReplyOf(p)) ELSE MessagesOf(g)
      PROVE  LifeInv'
  <2> DEFINE c0 == CallOf(p)
             n == Len(MessagesOf(p.client)) + 1
  <2>1. p \in replyTokens.pending /\ p \in PendingReply /\ p \notin replyTokens'.pending
    BY <1>3, <1>5 DEF Consumable, TypeInv, TypeOK, CallTypes
  <2>2. p.client \in FileIds
    BY <2>1 DEF PendingReply
  <2>3. CallOf(CallReplyOf(p)) = c0
    BY DEF CallOf, CallReplyOf
  <2>4. IsGiven(c0) /\ Made(c0) /\ ~IsQueued(c0) /\ ~IsAnswered(c0)
    BY <2>1 DEF IsGiven, LifeInv, OnePlace, AllMade
  <2>5. /\ (\A c : IsQueued(c)' => IsQueued(c)) /\ QueuedOnce'
    BY <1>2, QueuesShrink DEF LifeInv
  <2>6. /\ \A c : IsGiven(c)' => IsGiven(c) /\ c # c0
        /\ GivenOnce'
    BY <1>3, <2>1 DEF IsGiven, GivenOnce, LifeInv, CallOf
  <2>7. /\ MessagesOf(p.client) \in Seq(Message) /\ Len(MessagesOf(p.client)) \in Nat
    BY <2>2, InboxesAreTyped
  <2>8. /\ DOMAIN MessagesOf(p.client) = 1 .. Len(MessagesOf(p.client))
        /\ DOMAIN MessagesOf(p.client)' = 1 .. n
        /\ \A i \in DOMAIN MessagesOf(p.client) :
              MessagesOf(p.client)'[i] = MessagesOf(p.client)[i]
        /\ MessagesOf(p.client)'[n] = CallReplyOf(p)
    <3>1. MessagesOf(p.client)' = Append(MessagesOf(p.client), CallReplyOf(p))
      BY <1>5, <2>2
    <3>2. QED
      BY <2>7, <3>1, LenProperties
  <2>9. \A g \in FileIds : \A i \in Nat : ReplyAt(g, i)' =>
           \/ ReplyAt(g, i) /\ MessagesOf(g)'[i] = MessagesOf(g)[i]
           \/ g = p.client /\ i = n /\ CallOf(MessagesOf(g)'[i]) = c0
    <3>1. ASSUME NEW g \in FileIds, NEW i \in Nat, ReplyAt(g, i)', g # p.client
          PROVE  ReplyAt(g, i) /\ MessagesOf(g)'[i] = MessagesOf(g)[i]
      BY <1>5, <3>1 DEF ReplyAt
    <3>2. ASSUME NEW i \in Nat, ReplyAt(p.client, i)', i # n
          PROVE  ReplyAt(p.client, i) /\ MessagesOf(p.client)'[i] = MessagesOf(p.client)[i]
      <4>1. i \in 1 .. n
        BY <2>8, <3>2 DEF ReplyAt
      <4>2. i \in DOMAIN MessagesOf(p.client)
        BY <2>7, <2>8, <3>2, <4>1
      <4>3. QED
        BY <2>8, <3>2, <4>2 DEF ReplyAt
    <3>3. QED
      BY <2>2, <2>3, <2>8, <3>1, <3>2
  <2> HIDE DEF n, c0
  <2>10. \A c : IsAnswered(c)' => IsAnswered(c) \/ c = c0
    BY <2>9 DEF IsAnswered
  <2>11. AnsweredOnce'
    <3>1. \A g \in FileIds : \A i \in Nat : ReplyAt(g, i) => CallOf(MessagesOf(g)[i]) # c0
      BY <2>4 DEF IsAnswered
    <3>2. ASSUME NEW g \in FileIds, NEW h \in FileIds, NEW i \in Nat, NEW j \in Nat,
                 ReplyAt(g, i)', ReplyAt(h, j)',
                 CallOf(MessagesOf(g)'[i]) = CallOf(MessagesOf(h)'[j])
          PROVE  g = h /\ i = j
      BY <2>9, <3>1, <3>2 DEF LifeInv, AnsweredOnce
    <3>3. QED
      BY <3>2 DEF AnsweredOnce, CallOf
  <2>12. OnePlace'
    BY <2>4, <2>5, <2>6, <2>10 DEF LifeInv, OnePlace
  <2>13. \A c : Made(c) => Made(c)'
    BY <1>1 DEF Made
  <2>14. AllMade'
    BY <2>4, <2>5, <2>6, <2>10, <2>13 DEF LifeInv, AllMade
  <2>15. QED
    BY <2>5, <2>6, <2>11, <2>12, <2>14 DEF LifeInv
<1>6. QED
  BY <1>1, <1>4, <1>5

(* The entry and the request a flush makes of the i-th call of a queue. *)
FlushEntry(f, q, ts, i) ==
    [token |-> ts[i], client |-> q[i].client, service |-> f,
     call |-> q[i].call, origin |-> q[i].origin]
FlushRequest(s, q, ts, i) ==
    [type |-> "FunctionCallRequest", service |-> s, client |-> q[i].client,
     origin |-> q[i].origin, call |-> q[i].call, token |-> ts[i]]
FlushedRest(s, q, ts) == [i \in 1 .. Len(q) - 1 |-> FlushRequest(s, q, ts, i + 1)]

(* A flush: the queue becomes empty, every call of it gets an entry, and   *)
(* the requests go to f in the order of the queue, the first by hand and   *)
(* the others through its empty inbox, unless they are lost.               *)
LEMMA FlushEffect ==
    ASSUME TypeInv, TypeInv', NEW f \in FileIds, NEW s \in ServicesOf(f), NEW shortage,
           FlushRequests(f, s, shortage)
    PROVE  /\ QueueOf(s) \in Seq(QueuedRequest) /\ Len(QueueOf(s)) \in Nat \ {0}
           /\ QueueOf(s)' = <<>>
           /\ services'[s] # Nil /\ services'[s].file = services[s].file
           /\ \A t \in ServiceNames : t # s => services'[t] = services[t]
           /\ MessagesOf(f) = <<>>
           /\ \A g \in FileIds : g # f => MessagesOf(g)' = MessagesOf(g)
           /\ \E ts \in Allocate(replyTokens, Len(QueueOf(s))) :
                 /\ FreshTokens(replyTokens, Len(QueueOf(s)), ts)
                 /\ \A p : p \in replyTokens'.pending <=>
                        \/ p \in replyTokens.pending
                        \/ \E i \in 1 .. Len(QueueOf(s)) : p = FlushEntry(f, QueueOf(s), ts, i)
                 /\ \A i \in 1 .. Len(QueueOf(s)) : FlushRequest(s, QueueOf(s), ts, i) \in CallRequest
                 /\ \/ MessagesOf(f)' = <<>>
                    \/ MessagesOf(f)' = FlushedRest(s, QueueOf(s), ts)
                 /\ \A g \in FileIds : held'[g] \subseteq
                        held[g] \union (IF g = f THEN {FlushRequest(s, QueueOf(s), ts, 1)} ELSE {})
<1> DEFINE queue == services[s].queue
           count == Len(queue)
<1>1. s \in ServiceNames /\ services[s] \in BoundService /\ services[s] # Nil
  BY DEF TypeInv, TypeOK, CallTypes, ServicesOf, BoundService
<1>2. queue \in Seq(QueuedRequest) /\ count \in Nat /\ count > 0
  BY <1>1, EmptySeq, LenProperties DEF FlushRequests, BoundService
<1>3. \A i \in 1 .. count : queue[i] \in QueuedRequest
  BY <1>2, ElementOfSeq
<1>4. QueueOf(s) = queue
  BY <1>1 DEF QueueOf
<1>5. PICK ts \in Allocate(replyTokens, count) :
        /\ replyTokens' = Create(replyTokens, ts, {FlushEntry(f, queue, ts, i) : i \in 1 .. count})
        /\ \/ UNCHANGED <<inboxes, held>>
           \/ /\ \/ inboxes' = inboxes
                 \/ inboxes' = [inboxes EXCEPT ![f] =
                                   QueueAll(inboxes[f], FlushedRest(s, queue, ts))]
              /\ Receive(f, FlushRequest(s, queue, ts, 1)) \/ LoseResult
  BY DEF FlushRequests, FlushEntry, FlushRequest, FlushedRest
<1>6. FreshTokens(replyTokens, count, ts)
  BY <1>2, AllocateGivesFreshTokens, Zenon
<1>7. \A i \in 1 .. count : FlushRequest(s, queue, ts, i) \in CallRequest
  BY <1>1, <1>3, <1>6 DEF FreshTokens, FlushRequest, QueuedRequest, CallRequest
<1>8. \A p : p \in replyTokens'.pending <=>
          p \in replyTokens.pending \/ \E i \in 1 .. count : p = FlushEntry(f, queue, ts, i)
  BY <1>5 DEF Create
<1>9. /\ services' = [services EXCEPT ![s].queue = <<>>]
      /\ ~HasMessage(inboxes[f])
  BY DEF FlushRequests
<1>10. /\ services'[s] = [services[s] EXCEPT !.queue = <<>>]
       /\ \A t \in ServiceNames : t # s => services'[t] = services[t]
  BY <1>1, <1>9 DEF TypeInv, TypeOK, CallTypes
<1>11. /\ services'[s] # Nil /\ services'[s].file = services[s].file
       /\ QueueOf(s)' = <<>>
  <2>1. services'[s] \in [file : FileIds, queue : Seq(QueuedRequest)]
    BY <1>1, <1>10, EmptySeq DEF BoundService
  <2>2. services'[s] # Nil
    BY <2>1, NilAssumption
  <2>3. services'[s].file = services[s].file /\ services'[s].queue = <<>>
    BY <1>1, <1>10 DEF BoundService
  <2>4. QED
    BY <2>2, <2>3 DEF QueueOf
<1>12. MessagesOf(f) = <<>> /\ Messages(inboxes[f]) = <<>>
  BY <1>9 DEF HasMessage, MessagesOf, Messages
<1>13. FlushedRest(s, queue, ts) \in Seq(Message)
  <2>1. \A i \in 1 .. count - 1 : i + 1 \in 1 .. count
    BY <1>2
  <2>2. \A i \in 1 .. count - 1 : FlushRequest(s, queue, ts, i + 1) \in Message
    BY <1>7, <2>1 DEF Message
  <2>3. FlushedRest(s, queue, ts) \in [1 .. count - 1 -> Message]
    BY <2>2 DEF FlushedRest
  <2>4. count - 1 \in Nat
    BY <1>2
  <2>5. QED
    BY <2>3, <2>4, SeqDef
<1>14. /\ \/ MessagesOf(f)' = <<>>
          \/ MessagesOf(f)' = FlushedRest(s, queue, ts)
       /\ \A g \in FileIds : g # f => MessagesOf(g)' = MessagesOf(g)
  <2>1. /\ inboxes \in [FileIds -> MaybeInbox(Message)]
        /\ \A g \in FileIds : MessagesOf(g) = Messages(inboxes[g])
    BY InboxesAreTyped
  <2>2. CASE inboxes' = inboxes
    BY <1>12, <2>1, <2>2, PrimedMessages
  <2>3. CASE inboxes' = [inboxes EXCEPT ![f] = QueueAll(inboxes[f], FlushedRest(s, queue, ts))]
    <3>1. Messages(QueueAll(inboxes[f], FlushedRest(s, queue, ts))) =
             Messages(inboxes[f]) \o FlushedRest(s, queue, ts)
      BY <1>13, <2>1, QueueAllMessages
    <3>2. <<>> \o FlushedRest(s, queue, ts) = FlushedRest(s, queue, ts)
      BY <1>13
    <3>3. \A g \in FileIds : inboxes'[g] =
             IF g = f THEN QueueAll(inboxes[f], FlushedRest(s, queue, ts)) ELSE inboxes[g]
      BY <2>1, <2>3
    <3>4. QED
      BY <1>12, <2>1, <3>1, <3>2, <3>3, PrimedMessages
  <2>4. QED
    BY <1>5, <2>2, <2>3
<1>15. \A g \in FileIds : held'[g] \subseteq
          held[g] \union (IF g = f THEN {FlushRequest(s, queue, ts, 1)} ELSE {})
  <2>1. CASE held' = held
    BY <2>1
  <2>2. CASE Receive(f, FlushRequest(s, queue, ts, 1)) \/ LoseResult
    BY <2>2, ReceivedBy
  <2>3. QED
    BY <1>5, <2>1, <2>2
<1> HIDE DEF queue, count
<1>16. Len(QueueOf(s)) = count
  BY <1>4 DEF count
<1>17. /\ ts \in Allocate(replyTokens, Len(QueueOf(s)))
       /\ FreshTokens(replyTokens, Len(QueueOf(s)), ts)
  BY <1>5, <1>6, <1>16
<1>18. \A p : p \in replyTokens'.pending <=>
          \/ p \in replyTokens.pending
          \/ \E i \in 1 .. Len(QueueOf(s)) : p = FlushEntry(f, QueueOf(s), ts, i)
  BY <1>4, <1>8, <1>16
<1>19. \A i \in 1 .. Len(QueueOf(s)) : FlushRequest(s, QueueOf(s), ts, i) \in CallRequest
  BY <1>4, <1>7, <1>16
<1>20. /\ MessagesOf(f)' = <<>> \/ MessagesOf(f)' = FlushedRest(s, QueueOf(s), ts)
       /\ \A g \in FileIds : held'[g] \subseteq
             held[g] \union (IF g = f THEN {FlushRequest(s, QueueOf(s), ts, 1)} ELSE {})
  BY <1>4, <1>14, <1>15
<1>21. QueueOf(s) \in Seq(QueuedRequest) /\ Len(QueueOf(s)) \in Nat \ {0}
  BY <1>2, <1>4, <1>16
<1>22. QED
  BY <1>10, <1>11, <1>12, <1>14, <1>17, <1>18, <1>19, <1>20, <1>21

LEMMA FlushRequestsLife ==
    ASSUME TypeInv, TypeInv', LifeInv, NEW f \in FileIds, NEW s \in ServicesOf(f), NEW shortage,
           FlushRequests(f, s, shortage), UNCHANGED <<origin, lastCall>>
    PROVE  LifeInv'
<1>1. PICK q : q = QueueOf(s)
  OBVIOUS
<1>2. /\ q \in Seq(QueuedRequest) /\ Len(q) \in Nat \ {0}
      /\ QueueOf(s)' = <<>>
      /\ \A t \in ServiceNames : t # s => services'[t] = services[t]
      /\ MessagesOf(f) = <<>>
      /\ \A g \in FileIds : g # f => MessagesOf(g)' = MessagesOf(g)
  BY <1>1, FlushEffect
<1>20. \E ts : /\ \A p : p \in replyTokens'.pending <=>
                       \/ p \in replyTokens.pending
                       \/ \E i \in 1 .. Len(QueueOf(s)) : p = FlushEntry(f, QueueOf(s), ts, i)
               /\ \/ MessagesOf(f)' = <<>>
                  \/ MessagesOf(f)' = FlushedRest(s, QueueOf(s), ts)
  <2>1. PICK ts \in Allocate(replyTokens, Len(QueueOf(s))) :
            /\ \A p : p \in replyTokens'.pending <=>
                  \/ p \in replyTokens.pending
                  \/ \E i \in 1 .. Len(QueueOf(s)) : p = FlushEntry(f, QueueOf(s), ts, i)
            /\ MessagesOf(f)' = <<>> \/ MessagesOf(f)' = FlushedRest(s, QueueOf(s), ts)
    BY FlushEffect
  <2>2. QED
    BY <2>1
<1>3. PICK ts : /\ \A p : p \in replyTokens'.pending <=>
                       p \in replyTokens.pending \/ \E i \in 1 .. Len(q) : p = FlushEntry(f, q, ts, i)
                /\ MessagesOf(f)' = <<>> \/ MessagesOf(f)' = FlushedRest(s, q, ts)
  BY <1>1, <1>20
<1>4. s \in ServiceNames /\ DOMAIN q = 1 .. Len(q)
  BY <1>2, LenProperties DEF ServicesOf
<1>5. \A t \in ServiceNames : QueueOf(t)' = QueueOf(t) \/ QueueOf(t)' = <<>>
  BY <1>2 DEF QueueOf
<1>6. (\A c : IsQueued(c)' => IsQueued(c)) /\ QueuedOnce'
  BY <1>5, QueuesShrink DEF LifeInv
<1>7. \A i : CallOf(FlushEntry(f, q, ts, i)) = CallOf(q[i])
  BY DEF CallOf, FlushEntry
<1>8. \A i \in 1 .. Len(q) : IsQueued(CallOf(q[i])) /\ ~IsQueued(CallOf(q[i]))'
  <2>1. SUFFICES ASSUME NEW i \in 1 .. Len(q)
                 PROVE  IsQueued(CallOf(q[i])) /\ ~IsQueued(CallOf(q[i]))'
    OBVIOUS
  <2>2. IsQueued(CallOf(q[i]))
    BY <1>1, <1>4 DEF IsQueued
  <2>3. ASSUME NEW t \in ServiceNames, NEW j \in DOMAIN QueueOf(t)'
        PROVE  CallOf(QueueOf(t)'[j]) # CallOf(q[i])
    <3>1. t # s
      BY <1>2, <2>3
    <3>2. QueueOf(t)' = QueueOf(t)
      BY <1>2, <3>1 DEF QueueOf
    <3>3. QED
      BY <1>1, <1>4, <2>3, <3>1, <3>2 DEF LifeInv, QueuedOnce
  <2>4. QED
    BY <2>2, <2>3 DEF IsQueued, CallOf
<1>9. \A p \in replyTokens'.pending :
         \/ p \in replyTokens.pending
         \/ \E i \in 1 .. Len(q) : p = FlushEntry(f, q, ts, i)
  BY <1>3
<1>10. \A c : IsGiven(c)' => IsGiven(c) \/ (IsQueued(c) /\ ~IsQueued(c)')
  BY <1>7, <1>8, <1>9 DEF IsGiven, CallOf
<1>11. GivenOnce'
  <2>1. ASSUME NEW p \in replyTokens'.pending, NEW r \in replyTokens'.pending,
               CallOf(p) = CallOf(r)
        PROVE  p = r
    <3>1. CASE p \in replyTokens.pending /\ r \in replyTokens.pending
      BY <2>1, <3>1 DEF LifeInv, GivenOnce
    <3>2. \A x \in replyTokens.pending : \A i \in 1 .. Len(q) :
             CallOf(x) # CallOf(FlushEntry(f, q, ts, i))
      BY <1>7, <1>8 DEF LifeInv, OnePlace, IsGiven
    <3>3. ASSUME NEW i \in 1 .. Len(q), NEW j \in 1 .. Len(q),
                 p = FlushEntry(f, q, ts, i), r = FlushEntry(f, q, ts, j)
          PROVE  p = r
      <4>1. CallOf(q[i]) = CallOf(q[j])
        BY <1>7, <2>1, <3>3
      <4>2. i = j
        BY <1>1, <1>4, <4>1 DEF LifeInv, QueuedOnce
      <4>3. QED
        BY <3>3, <4>2
    <3>4. QED
      BY <1>9, <2>1, <3>1, <3>2, <3>3
  <2>2. QED
    BY <2>1 DEF GivenOnce, CallOf
<1>12. PICK shift \in [FileIds -> Nat] : \A g \in FileIds : shift[g] = 0
  <2>1. [g \in FileIds |-> 0] \in [FileIds -> Nat]
    OBVIOUS
  <2>2. QED
    BY <2>1
<1>13. RepliesFrom(shift)
  <2>1. \A i \in Nat : ~ReplyAt(f, i)'
    BY <1>3 DEF ReplyAt, FlushedRest, FlushRequest
  <2>2. \A i \in Nat : i + 0 = i
    OBVIOUS
  <2>3. QED
    BY <1>2, <1>12, <2>1, <2>2 DEF RepliesFrom, ReplyAt
<1>14. (\A c : IsAnswered(c)' => IsAnswered(c)) /\ AnsweredOnce'
  BY <1>13, RepliesShrink DEF LifeInv
<1>15. OnePlace'
  BY <1>6, <1>10, <1>14 DEF LifeInv, OnePlace
<1>16. AllMade'
  <2>1. \A c : Made(c) => Made(c)'
    BY DEF Made
  <2>2. QED
    BY <1>6, <1>10, <1>14, <2>1 DEF LifeInv, AllMade
<1>17. QED
  BY <1>6, <1>11, <1>14, <1>15, <1>16 DEF LifeInv

LEMMA NextLife == TypeInv /\ TypeInv' /\ LifeInv /\ [Next]_vars => LifeInv'
<1> SUFFICES ASSUME TypeInv, TypeInv', LifeInv, [Next]_vars
             PROVE  LifeInv'
  OBVIOUS
<1>1. QED
  BY CallSteps, CallsAloneLife, OpenLife, FunctionCallLife, FunctionCallReplyLife,
     PopMessageLife, FlushRequestsLife, CloseLife

LEMMA LifeInvariant == Spec => []LifeInv
<1>1. Init => LifeInv
  BY InitLife
<1>2. TypeInv /\ TypeInv' /\ LifeInv /\ [Next]_vars => LifeInv'
  BY NextLife
<1>3. QED
  BY <1>1, <1>2, TypeInvariant, PTL DEF Spec

LEMMA AtMostOne ==
    ASSUME NEW S, \A x, y \in S : x = y
    PROVE  /\ Cardinality(S) \in {0, 1}
           /\ S = {} => Cardinality(S) = 0
<1>1. CASE S = {}
  BY <1>1, FS_EmptySet
<1>2. CASE S # {}
  <2>1. PICK x \in S : TRUE
    BY <1>2
  <2>2. S = {x}
    BY <2>1
  <2>3. QED
    BY <1>2, <2>2, FS_Singleton
<1>3. QED
  BY <1>1, <1>2

(* A call has one life: it is in one queue, or has one token, or one reply *)
(* of it waits, whatever closes, fails, or is answered in between.         *)
THEOREM ACallHasOneLife == Spec => []CallsAreConserved
<1>1. TypeInv /\ LifeInv => CallsAreConserved
  <2> SUFFICES ASSUME TypeInv, LifeInv,
                      NEW f \in FileIds, NEW o \in 1 .. MaxOpens, NEW n \in 1 .. MaxCalls
               PROVE  LET same(x) == x.client = f /\ x.origin = o /\ x.call = n
                          reply(m) == m.type = "FunctionCallReply" /\ same(m)
                          queued == UNION {{<<s, i>> : i \in {j \in DOMAIN QueueOf(s) :
                                                                 same(QueueOf(s)[j])}} :
                                              s \in ServiceNames}
                          given == {p \in replyTokens.pending : same(p)}
                          replies == UNION {{<<g, i>> : i \in {j \in DOMAIN MessagesOf(g) :
                                                                  reply(MessagesOf(g)[j])}} :
                                               g \in FileIds}
                      IN  Cardinality(queued) + Cardinality(given) + Cardinality(replies) <= 1
    BY DEF CallsAreConserved
  <2> DEFINE same(x) == x.client = f /\ x.origin = o /\ x.call = n
             reply(m) == m.type = "FunctionCallReply" /\ same(m)
             queued == UNION {{<<s, i>> : i \in {j \in DOMAIN QueueOf(s) : same(QueueOf(s)[j])}} :
                                 s \in ServiceNames}
             given == {p \in replyTokens.pending : same(p)}
             replies == UNION {{<<g, i>> : i \in {j \in DOMAIN MessagesOf(g) :
                                                     reply(MessagesOf(g)[j])}} : g \in FileIds}
             c == <<f, o, n>>
  <2>1. \A x : same(x) => CallOf(x) = c
    BY DEF CallOf
  <2>2. \A x \in queued : \E s \in ServiceNames : \E i \in DOMAIN QueueOf(s) :
           x = <<s, i>> /\ CallOf(QueueOf(s)[i]) = c
    BY <2>1
  <2>3. \A p \in given : p \in replyTokens.pending /\ CallOf(p) = c
    BY <2>1
  <2>4. \A x \in replies : \E g \in FileIds : \E i \in Nat :
           x = <<g, i>> /\ ReplyAt(g, i) /\ CallOf(MessagesOf(g)[i]) = c
    <3>1. \A g \in FileIds : DOMAIN MessagesOf(g) \subseteq Nat
      BY InboxesAreTyped, LenProperties
    <3>2. QED
      BY <2>1, <3>1 DEF ReplyAt
  <2> HIDE DEF queued, given, replies, c
  <2>5. /\ \A x, y \in queued : x = y
        /\ \A x, y \in given : x = y
        /\ \A x, y \in replies : x = y
    <3>1. \A x, y \in queued : x = y
      BY <2>2 DEF LifeInv, QueuedOnce
    <3>2. \A x, y \in given : x = y
      BY <2>3 DEF LifeInv, GivenOnce
    <3>3. \A x, y \in replies : x = y
      BY <2>4 DEF LifeInv, AnsweredOnce
    <3>4. QED
      BY <3>1, <3>2, <3>3
  <2>6. /\ queued # {} => IsQueued(c)
        /\ given # {} => IsGiven(c)
        /\ replies # {} => IsAnswered(c)
    BY <2>2, <2>3, <2>4 DEF IsQueued, IsGiven, IsAnswered
  <2>7. /\ queued = {} \/ given = {}
        /\ queued = {} \/ replies = {}
        /\ given = {} \/ replies = {}
    BY <2>6 DEF LifeInv, OnePlace
  <2>8. Cardinality(queued) + Cardinality(given) + Cardinality(replies) <= 1
    BY <2>5, <2>7, AtMostOne
  <2>9. QED
    BY <2>8 DEF queued, given, replies
<1>2. QED
  BY <1>1, TypeInvariant, LifeInvariant, PTL

-------------------------------------------------------------------------------
(***************************************************************************)
(* The bus implements Rpc.  Where a call is determines its phase there.    *)
(***************************************************************************)
LifeOf ==
    \A x \in Calls :
        /\ IsQueued(CallOf(x)) => Life(x) = Bus!Queued
        /\ \A p \in replyTokens.pending :
              CallOf(p) = CallOf(x) => Life(x) = Bus!Given(p.service)
        /\ IsAnswered(CallOf(x)) => Life(x) = Bus!Answered
        /\ ~IsQueued(CallOf(x)) /\ ~IsGiven(CallOf(x)) /\ ~IsAnswered(CallOf(x)) =>
              Life(x) = IF Made(CallOf(x)) THEN Bus!Over ELSE Bus!Unmade

LEMMA LifeIsPlace == TypeInv /\ LifeInv => LifeOf
<1> SUFFICES ASSUME TypeInv, LifeInv, NEW x \in Calls
             PROVE  /\ IsQueued(CallOf(x)) => Life(x) = Bus!Queued
                    /\ \A p \in replyTokens.pending :
                          CallOf(p) = CallOf(x) => Life(x) = Bus!Given(p.service)
                    /\ IsAnswered(CallOf(x)) => Life(x) = Bus!Answered
                    /\ ~IsQueued(CallOf(x)) /\ ~IsGiven(CallOf(x)) /\ ~IsAnswered(CallOf(x)) =>
                          Life(x) = IF Made(CallOf(x)) THEN Bus!Over ELSE Bus!Unmade
  BY DEF LifeOf
<1>1. \A y : SameCall(x, y) <=> CallOf(y) = CallOf(x)
  BY DEF CallOf, SameCall
<1>2. PICK queues : queues = {s \in ServiceNames :
                                 \E i \in DOMAIN QueueOf(s) : SameCall(x, QueueOf(s)[i])}
  OBVIOUS
<1>3. PICK entries : entries = {p \in replyTokens.pending : SameCall(x, p)}
  OBVIOUS
<1>4. PICK boxes : boxes = {f \in FileIds : \E m \in Range(MessagesOf(f)) :
                                m.type = "FunctionCallReply" /\ SameCall(x, m)}
  OBVIOUS
<1>5. Places(x) = {At("queued", Nil) : s \in queues}
                  \union {At("given", p.service) : p \in entries}
                  \union {At("answered", Nil) : f \in boxes}
  BY <1>2, <1>3, <1>4 DEF Places
<1>6. queues # {} <=> IsQueued(CallOf(x))
  BY <1>1, <1>2 DEF IsQueued
<1>7. \A p : p \in entries <=> p \in replyTokens.pending /\ CallOf(p) = CallOf(x)
  BY <1>1, <1>3
<1>8. entries # {} <=> IsGiven(CallOf(x))
  BY <1>7 DEF IsGiven
<1>9. boxes # {} <=> IsAnswered(CallOf(x))
  <2>1. \A f \in FileIds : /\ DOMAIN MessagesOf(f) \subseteq Nat
                           /\ Range(MessagesOf(f)) =
                                 {MessagesOf(f)[i] : i \in DOMAIN MessagesOf(f)}
    BY InboxesAreTyped, LenProperties DEF Range
  <2>2. \A f \in FileIds : f \in boxes
           <=> \E i \in Nat : ReplyAt(f, i) /\ CallOf(MessagesOf(f)[i]) = CallOf(x)
    BY <1>1, <1>4, <2>1 DEF ReplyAt
  <2>3. QED
    BY <1>4, <2>2 DEF IsAnswered
<1>10. IsMade(x) <=> Made(CallOf(x))
  BY MotherboardAssumption
     DEF IsMade, Made, CallOf, Calls, CallIds, TypeInv, TypeOK, FileTypes
<1>11. \A p, q \in entries : p = q
  BY <1>7 DEF LifeInv, GivenOnce
<1>12. /\ ~(queues # {} /\ entries # {})
       /\ ~(queues # {} /\ boxes # {})
       /\ ~(entries # {} /\ boxes # {})
  BY <1>6, <1>8, <1>9 DEF LifeInv, OnePlace
<1>13. ASSUME NEW v, Places(x) = {v} PROVE Life(x) = v
  <2>1. Cardinality(Places(x)) = 1
    BY <1>13, FS_Singleton
  <2>2. (CHOOSE p \in Places(x) : TRUE) = v /\ Places(x) # {}
    BY <1>13
  <2>3. QED
    BY <2>1, <2>2 DEF Life
<1>14. ASSUME Places(x) = {}
       PROVE  Life(x) = IF IsMade(x) THEN At("over", Nil) ELSE At("unmade", Nil)
  <2>1. Cardinality(Places(x)) = 0
    BY <1>14, FS_EmptySet
  <2>2. CASE IsMade(x)
    BY <1>14, <2>1, <2>2 DEF Life
  <2>3. CASE ~IsMade(x)
    BY <1>14, <2>1, <2>3 DEF Life
  <2>4. QED
    BY <2>2, <2>3
<1>15. IsQueued(CallOf(x)) => Places(x) = {At("queued", Nil)}
  BY <1>5, <1>6, <1>12
<1>16. \A p \in replyTokens.pending :
          CallOf(p) = CallOf(x) => Places(x) = {At("given", p.service)}
  <2>1. ASSUME NEW p \in replyTokens.pending, CallOf(p) = CallOf(x)
        PROVE  entries = {p} /\ queues = {} /\ boxes = {}
    BY <1>7, <1>11, <1>12, <2>1
  <2>2. QED
    BY <1>5, <2>1
<1>17. IsAnswered(CallOf(x)) => Places(x) = {At("answered", Nil)}
  BY <1>5, <1>9, <1>12
<1>18. ~IsQueued(CallOf(x)) /\ ~IsGiven(CallOf(x)) /\ ~IsAnswered(CallOf(x)) => Places(x) = {}
  BY <1>5, <1>6, <1>8, <1>9
<1>19. /\ Bus!Queued = At("queued", Nil) /\ Bus!Answered = At("answered", Nil)
       /\ Bus!Over = At("over", Nil) /\ Bus!Unmade = At("unmade", Nil)
       /\ \A f : Bus!Given(f) = At("given", f)
  BY DEF Bus!Queued, Bus!Given, Bus!Answered, Bus!Over, Bus!Unmade, Bus!Phase, At
<1>20. QED
  BY <1>10, <1>13, <1>14, <1>15, <1>16, <1>17, <1>18, <1>19

(* The same, in the state after a step. *)
LEMMA LifeIsPlaceAfter == TypeInv' /\ LifeInv' => LifeOf'
BY LifeIsPlace, PTL

(* What a step may do to the places of the calls, besides ending some: it  *)
(* makes one call, or gives the calls of a queue to a server, or moves one *)
(* call from the table to an inbox.                                        *)
OneMade(c0) ==
    /\ ~Made(c0)
    /\ \A c : IsQueued(c)' <=> IsQueued(c) \/ c = c0
    /\ \A x, c : c = CallOf(x) /\ c # c0 => (Made(c)' <=> Made(c))
    /\ replyTokens' = replyTokens
    /\ \A c : IsAnswered(c)' <=> IsAnswered(c)

ManyGiven(f) ==
    /\ \A c : IsQueued(c) => IsQueued(c)' \/ \E p \in replyTokens'.pending : CallOf(p) = c
    /\ \A c : IsQueued(c)' => IsQueued(c)
    /\ replyTokens.pending \subseteq replyTokens'.pending
    /\ \A p \in replyTokens'.pending \ replyTokens.pending :
          p.service = f /\ IsQueued(CallOf(p))
    /\ \A c : IsAnswered(c)' <=> IsAnswered(c)
    /\ \A c : Made(c)' <=> Made(c)

OneAnswered(p) ==
    /\ \A c : IsQueued(c)' <=> IsQueued(c)
    /\ replyTokens'.pending = replyTokens.pending \ {p}
    /\ \A c : IsAnswered(c)' <=> IsAnswered(c) \/ c = CallOf(p)
    /\ \A c : Made(c)' <=> Made(c)

(* Each of them is a step of Rpc. *)
LEMMA LifeAfter ==
    DOMAIN [x \in Calls |-> Life(x)'] = Calls /\ \A y \in Calls : [x \in Calls |-> Life(x)'][y] = Life(y)'
OBVIOUS

LEMMA EndingIsAStep ==
    ASSUME LifeInv, LifeOf, LifeOf', OnlyEnds
    PROVE  Bus!Next
<1>1. ASSUME NEW x \in Calls PROVE Life(x)' = Life(x) \/ Life(x)' = Bus!Over
  <2> DEFINE c == CallOf(x)
  <2>1. CallOf(x)' = c
    BY DEF CallOf
  <2>2. CASE IsQueued(c)'
    <3>1. Life(x)' = Bus!Queued
      BY <2>1, <2>2 DEF LifeOf
    <3>2. QED
      BY <2>2, <3>1 DEF LifeOf, OnlyEnds
  <2>3. ASSUME NEW p \in replyTokens'.pending, CallOf(p) = c
        PROVE  Life(x)' = Life(x)
    <3>1. Life(x)' = Bus!Given(p.service)
      BY <2>3 DEF LifeOf, CallOf
    <3>2. QED
      BY <2>3, <3>1 DEF LifeOf, OnlyEnds
  <2>4. CASE IsAnswered(c)'
    <3>1. Life(x)' = Bus!Answered
      BY <2>1, <2>4 DEF LifeOf
    <3>2. QED
      BY <2>4, <3>1 DEF LifeOf, OnlyEnds
  <2>5. CASE ~IsQueued(c)' /\ ~IsGiven(c)' /\ ~IsAnswered(c)' /\ ~Made(c)'
    <3>1. Life(x)' = Bus!Unmade
      BY <2>1, <2>5 DEF LifeOf
    <3>2. ~Made(c)
      BY <2>5 DEF OnlyEnds
    <3>3. ~IsQueued(c) /\ ~IsGiven(c) /\ ~IsAnswered(c)
      BY <3>2 DEF LifeInv, AllMade
    <3>4. QED
      BY <3>1, <3>2, <3>3 DEF LifeOf
  <2>6. CASE ~IsQueued(c)' /\ ~IsGiven(c)' /\ ~IsAnswered(c)' /\ Made(c)'
    BY <2>1, <2>6 DEF LifeOf
  <2>7. QED
    BY <2>2, <2>3, <2>4, <2>5, <2>6 DEF IsGiven, CallOf
<1>2. QED
  BY <1>1, LifeAfter DEF Bus!Next, Bus!End

(* A call about which nothing changes keeps its phase. *)
LEMMA SamePhase ==
    ASSUME LifeOf, LifeOf', NEW x \in Calls, NEW c, CallOf(x) = c,
           IsQueued(c)' <=> IsQueued(c), IsAnswered(c)' <=> IsAnswered(c), Made(c)' <=> Made(c),
           \A p : CallOf(p) = c => (p \in replyTokens'.pending <=> p \in replyTokens.pending)
    PROVE  Life(x)' = Life(x)
<1>1. CallOf(x)' = c
  BY DEF CallOf
<1>2. IsGiven(c)' <=> IsGiven(c)
  BY DEF IsGiven, CallOf
<1>3. CASE IsQueued(c)
  BY <1>1, <1>3 DEF LifeOf
<1>4. CASE IsAnswered(c)
  BY <1>1, <1>4 DEF LifeOf
<1>5. ASSUME NEW p \in replyTokens.pending, CallOf(p) = c PROVE Life(x)' = Life(x)
  <2>1. Life(x)' = Bus!Given(p.service)
    BY <1>5 DEF LifeOf, CallOf
  <2>2. QED
    BY <1>5, <2>1 DEF LifeOf
<1>6. CASE ~IsQueued(c) /\ ~IsGiven(c) /\ ~IsAnswered(c)
  BY <1>1, <1>2, <1>6 DEF LifeOf
<1>7. QED
  BY <1>3, <1>4, <1>5, <1>6 DEF IsGiven

LEMMA OneCall == \A x, y \in Calls : CallOf(x) = CallOf(y) => x = y
BY DEF Calls, CallOf

LEMMA MakingIsAStep ==
    ASSUME LifeInv, LifeOf, LifeOf', NEW c0, OneMade(c0)
    PROVE  Bus!Next
<1>1. ASSUME NEW x \in Calls, CallOf(x) # c0 PROVE Life(x)' = Life(x)
  <2>1. PICK c : c = CallOf(x)
    OBVIOUS
  <2>2. QED
    BY <1>1, <2>1, SamePhase DEF OneMade
<1>2. CASE \A x \in Calls : CallOf(x) # c0
  BY <1>1, <1>2, LifeAfter DEF Bus!Next, Bus!End
<1>3. ASSUME NEW x0 \in Calls, CallOf(x0) = c0 PROVE Bus!Next
  <2>1. ~IsQueued(c0) /\ ~IsGiven(c0) /\ ~IsAnswered(c0) /\ ~Made(c0)
    BY DEF OneMade, LifeInv, AllMade
  <2>2. Life(x0) = Bus!Unmade
    BY <1>3, <2>1 DEF LifeOf
  <2>3. IsQueued(c0)' /\ CallOf(x0)' = c0
    BY <1>3 DEF OneMade, CallOf
  <2>4. Life(x0)' = Bus!Queued
    BY <2>3 DEF LifeOf
  <2>5. Bus!Unmade # Bus!Queued
    BY DEF Bus!Unmade, Bus!Queued, Bus!Phase
  <2>6. \A x \in Calls : Life(x)' # Life(x) <=> x = x0
    BY <1>1, <1>3, <2>2, <2>4, <2>5, OneCall
  <2>7. Bus!One({x0})
    BY DEF Bus!One
  <2>8. {x \in Calls : [y \in Calls |-> Life(y)'][x] # [y \in Calls |-> Life(y)][x]} = {x0}
    BY <2>6
  <2>9. Bus!Make({x0})
    BY <2>2, <2>4, <2>7 DEF Bus!Make, Bus!Move
  <2>10. QED
    BY <2>8, <2>9, LifeAfter DEF Bus!Next
<1>4. QED
  BY <1>2, <1>3

LEMMA GivingIsAStep ==
    ASSUME LifeInv, LifeInv', LifeOf, LifeOf', NEW f \in Daemons, ManyGiven(f)
    PROVE  Bus!Next
<1>1. ASSUME NEW x \in Calls
      PROVE  \/ Life(x)' = Life(x)
             \/ Life(x) = Bus!Queued /\ Life(x)' = Bus!Given(f)
  <2>1. PICK c : c = CallOf(x)
    OBVIOUS
  <2>2. ASSUME NEW p \in replyTokens'.pending \ replyTokens.pending, CallOf(p) = c
        PROVE  Life(x) = Bus!Queued /\ Life(x)' = Bus!Given(f)
    <3>1. p.service = f /\ IsQueued(c)
      BY <2>2 DEF ManyGiven
    <3>2. Life(x)' = Bus!Given(p.service)
      BY <2>1, <2>2 DEF LifeOf, CallOf
    <3>3. QED
      BY <2>1, <3>1, <3>2 DEF LifeOf
  <2>3. CASE \A p \in replyTokens'.pending \ replyTokens.pending : CallOf(p) # c
    <3>1. \A p : CallOf(p) = c => (p \in replyTokens'.pending <=> p \in replyTokens.pending)
      BY <2>3 DEF ManyGiven
    <3>2. IsQueued(c)' <=> IsQueued(c)
      <4>1. IsQueued(c) => ~IsGiven(c)
        BY DEF LifeInv, OnePlace
      <4>2. QED
        BY <3>1, <4>1 DEF ManyGiven, IsGiven
    <3>3. QED
      BY <2>1, <3>1, <3>2, SamePhase DEF ManyGiven
  <2>4. QED
    BY <2>2, <2>3
<1>2. QED
  BY <1>1, LifeAfter DEF Bus!Next, Bus!Give, Bus!Move

LEMMA AnsweringIsAStep ==
    ASSUME LifeInv, LifeOf, LifeOf', NEW p \in replyTokens.pending, p.service \in Daemons,
           OneAnswered(p)
    PROVE  Bus!Next
<1>1. PICK c0 : c0 = CallOf(p)
  OBVIOUS
<1>2. ASSUME NEW x \in Calls, CallOf(x) # c0 PROVE Life(x)' = Life(x)
  <2>1. PICK c : c = CallOf(x)
    OBVIOUS
  <2>2. QED
    BY <1>1, <1>2, <2>1, SamePhase DEF OneAnswered
<1>3. CASE \A x \in Calls : CallOf(x) # c0
  BY <1>2, <1>3, LifeAfter DEF Bus!Next, Bus!End
<1>4. ASSUME NEW x0 \in Calls, CallOf(x0) = c0 PROVE Bus!Next
  <2>1. Life(x0) = Bus!Given(p.service)
    BY <1>1, <1>4 DEF LifeOf
  <2>2. IsAnswered(c0)' /\ CallOf(x0)' = c0
    BY <1>1, <1>4 DEF OneAnswered, CallOf
  <2>3. Life(x0)' = Bus!Answered
    BY <2>2 DEF LifeOf
  <2>4. Bus!Given(p.service) # Bus!Answered
    BY DEF Bus!Given, Bus!Answered, Bus!Phase
  <2>5. \A x \in Calls : Life(x)' # Life(x) <=> x = x0
    BY <1>2, <1>4, <2>1, <2>3, <2>4, OneCall
  <2>6. Bus!One({x0})
    BY DEF Bus!One
  <2>7. {x \in Calls : [y \in Calls |-> Life(y)'][x] # [y \in Calls |-> Life(y)][x]} = {x0}
    BY <2>5
  <2>8. Bus!Answer({x0}, p.service)
    BY <2>1, <2>3, <2>6 DEF Bus!Answer, Bus!Move
  <2>9. QED
    BY <2>7, <2>8, LifeAfter DEF Bus!Next
<1>5. QED
  BY <1>3, <1>4

(* Servers are daemons: only they may bind. *)
ServersAreDaemons ==
    /\ \A s \in ServiceNames : services[s] # Nil => services[s].file \in Daemons
    /\ \A p \in replyTokens.pending : p.service \in Daemons

LEMMA FunctionCallMakesOne ==
    ASSUME TypeInv, TypeInv', LifeInv, NEW f \in FileIds, NEW s \in ServiceNames,
           FunctionCall(f, s)
    PROVE  \E c0 : OneMade(c0)
<1>1. PICK new : new = [client |-> f, origin |-> origin[f], call |-> lastCall[f] + 1]
  OBVIOUS
<1>2. PICK c0 : c0 = CallOf(new)
  OBVIOUS
<1>3. /\ QueueOf(s) \in Seq(QueuedRequest)
      /\ QueueOf(s)' = Append(QueueOf(s), new)
      /\ \A t \in ServiceNames : t # s => services'[t] = services[t]
      /\ \A g \in FileIds : MessagesOf(g)' = MessagesOf(g)
      /\ UNCHANGED <<replyTokens, origin>>
      /\ lastCall' = [lastCall EXCEPT ![f] = lastCall[f] + 1]
  BY <1>1, FunctionCallEffect
<1>4. /\ DOMAIN QueueOf(s) = 1 .. Len(QueueOf(s)) /\ Len(QueueOf(s)) \in Nat
      /\ DOMAIN QueueOf(s)' = 1 .. Len(QueueOf(s)) + 1
      /\ QueueOf(s)'[Len(QueueOf(s)) + 1] = new
      /\ \A i \in DOMAIN QueueOf(s) : QueueOf(s)'[i] = QueueOf(s)[i]
  BY <1>3, LenProperties
<1>5. \A t \in ServiceNames : t # s => QueueOf(t)' = QueueOf(t)
  BY <1>3 DEF QueueOf
<1>6. origin[f] \in Nat /\ lastCall[f] \in Nat
  BY DEF TypeInv, TypeOK, FileTypes
<1>7. ~Made(c0)
  BY <1>1, <1>2, <1>6 DEF Made, CallOf
<1>8. \A c : IsQueued(c)' <=> IsQueued(c) \/ c = c0
  <2>1. /\ \A t \in ServiceNames : \A i \in DOMAIN QueueOf(t)' :
              \/ i \in DOMAIN QueueOf(t) /\ QueueOf(t)'[i] = QueueOf(t)[i]
              \/ QueueOf(t)'[i] = new
        /\ \A t \in ServiceNames : \A i \in DOMAIN QueueOf(t) :
              i \in DOMAIN QueueOf(t)' /\ QueueOf(t)'[i] = QueueOf(t)[i]
        /\ \E i \in DOMAIN QueueOf(s)' : QueueOf(s)'[i] = new
    BY <1>4, <1>5
  <2>2. \A c : IsQueued(c)' => IsQueued(c) \/ c = c0
    BY <1>2, <2>1 DEF IsQueued, CallOf
  <2>3. \A c : IsQueued(c) => IsQueued(c)'
    BY <2>1 DEF IsQueued, CallOf
  <2>4. IsQueued(c0)'
    BY <1>2, <2>1 DEF IsQueued, CallOf
  <2>5. QED
    BY <2>2, <2>3, <2>4
<1>9. ASSUME NEW x, NEW c, c = CallOf(x), c # c0 PROVE Made(c)' <=> Made(c)
  <2>1. CASE c[1] = f
    BY <1>1, <1>2, <1>3, <1>6, <1>9, <2>1 DEF Made, CallOf, TypeInv, TypeOK, FileTypes
  <2>2. CASE c[1] # f
    <3>1. lastCall'[c[1]] = lastCall[c[1]]
      BY <1>3, <2>2 DEF TypeInv, TypeOK, FileTypes
    <3>2. QED
      BY <1>3, <3>1 DEF Made
  <2>3. QED
    BY <2>1, <2>2
<1>10. \A c : IsAnswered(c)' <=> IsAnswered(c)
  BY <1>3 DEF IsAnswered, ReplyAt
<1>11. QED
  BY <1>3, <1>7, <1>8, <1>9, <1>10 DEF OneMade

LEMMA FlushGivesMany ==
    ASSUME TypeInv, TypeInv', LifeInv, NEW f \in FileIds, NEW s \in ServicesOf(f), NEW shortage,
           FlushRequests(f, s, shortage), UNCHANGED <<origin, lastCall>>
    PROVE  /\ ManyGiven(f)
           /\ \A t \in ServiceNames : services'[t] = services[t] \/
                  (services[t] # Nil /\ services'[t].file = services[t].file)
<1>1. PICK q : q = QueueOf(s)
  OBVIOUS
<1>2. /\ q \in Seq(QueuedRequest) /\ Len(q) \in Nat \ {0}
      /\ QueueOf(s)' = <<>>
      /\ services'[s].file = services[s].file
      /\ \A t \in ServiceNames : t # s => services'[t] = services[t]
      /\ MessagesOf(f) = <<>>
      /\ \A g \in FileIds : g # f => MessagesOf(g)' = MessagesOf(g)
  BY <1>1, FlushEffect
<1>3. \E ts : /\ \A p : p \in replyTokens'.pending <=>
                       \/ p \in replyTokens.pending
                       \/ \E i \in 1 .. Len(QueueOf(s)) : p = FlushEntry(f, QueueOf(s), ts, i)
              /\ \/ MessagesOf(f)' = <<>>
                 \/ MessagesOf(f)' = FlushedRest(s, QueueOf(s), ts)
  <2>1. PICK ts \in Allocate(replyTokens, Len(QueueOf(s))) :
            /\ \A p : p \in replyTokens'.pending <=>
                  \/ p \in replyTokens.pending
                  \/ \E i \in 1 .. Len(QueueOf(s)) : p = FlushEntry(f, QueueOf(s), ts, i)
            /\ MessagesOf(f)' = <<>> \/ MessagesOf(f)' = FlushedRest(s, QueueOf(s), ts)
    BY FlushEffect
  <2>2. QED
    BY <2>1
<1>4. PICK ts : /\ \A p : p \in replyTokens'.pending <=>
                       p \in replyTokens.pending \/ \E i \in 1 .. Len(q) : p = FlushEntry(f, q, ts, i)
                /\ MessagesOf(f)' = <<>> \/ MessagesOf(f)' = FlushedRest(s, q, ts)
  BY <1>1, <1>3
<1>5. s \in ServiceNames /\ services[s] # Nil /\ DOMAIN q = 1 .. Len(q)
  BY <1>2, LenProperties DEF ServicesOf
<1>6. \A i : CallOf(FlushEntry(f, q, ts, i)) = CallOf(q[i]) /\ FlushEntry(f, q, ts, i).service = f
  BY DEF CallOf, FlushEntry
<1>7. \A t \in ServiceNames : t # s => QueueOf(t)' = QueueOf(t)
  BY <1>2 DEF QueueOf
<1>8. \A c : IsQueued(c) => IsQueued(c)' \/ \E p \in replyTokens'.pending : CallOf(p) = c
  <2>1. ASSUME NEW t \in ServiceNames, NEW i \in DOMAIN QueueOf(t), NEW c,
               CallOf(QueueOf(t)[i]) = c
        PROVE  IsQueued(c)' \/ \E p \in replyTokens'.pending : CallOf(p) = c
    <3>1. CASE t = s
      BY <1>1, <1>4, <1>5, <1>6, <2>1, <3>1
    <3>2. CASE t # s
      BY <1>7, <2>1, <3>2 DEF IsQueued, CallOf
    <3>3. QED
      BY <3>1, <3>2
  <2>2. QED
    BY <2>1 DEF IsQueued
<1>9. \A c : IsQueued(c)' => IsQueued(c)
  BY <1>2, <1>7 DEF IsQueued, CallOf
<1>10. \A p \in replyTokens'.pending \ replyTokens.pending : p.service = f /\ IsQueued(CallOf(p))
  BY <1>1, <1>4, <1>5, <1>6 DEF IsQueued
<1>11. \A c : IsAnswered(c)' <=> IsAnswered(c)
  <2>1. \A i : ~ReplyAt(f, i)' /\ ~ReplyAt(f, i)
    BY <1>2, <1>4 DEF ReplyAt, FlushedRest, FlushRequest
  <2>2. QED
    BY <1>2, <2>1 DEF IsAnswered, ReplyAt, CallOf
<1>12. \A c : Made(c)' <=> Made(c)
  BY DEF Made
<1>13. QED
  BY <1>2, <1>4, <1>5, <1>8, <1>9, <1>10, <1>11, <1>12 DEF ManyGiven

LEMMA ReplyAnswersOne ==
    ASSUME TypeInv, TypeInv', MatchInv, LifeInv, NEW f \in FileIds, NEW g \in FileIds,
           NEW m \in held[g], NEW badFds, NEW shortage,
           FunctionCallReply(f, m, badFds, shortage)
    PROVE  /\ OnlyEnds \/ \E p \in replyTokens.pending : OneAnswered(p)
           /\ UNCHANGED services /\ replyTokens'.pending \subseteq replyTokens.pending
<1>1. PICK consumed : consumed = Consumable(replyTokens, m.token, f)
  OBVIOUS
<1>2. /\ UNCHANGED <<services, origin, lastCall>>
      /\ \/ replyTokens' = replyTokens /\ \A h \in FileIds : MessagesOf(h)' = MessagesOf(h)
         \/ \E p \in consumed :
               /\ replyTokens' = Discard(replyTokens, consumed)
               /\ \/ \A h \in FileIds : MessagesOf(h)' = MessagesOf(h)
                  \/ \A h \in FileIds : MessagesOf(h)' =
                        IF h = p.client THEN Append(MessagesOf(h), CallReplyOf(p))
                        ELSE MessagesOf(h)
  BY <1>1, FunctionCallReplyEffect
<1>3. replyTokens' = Discard(replyTokens, consumed) =>
          replyTokens'.pending = replyTokens.pending \ consumed
  BY DEF Discard, TypeInv, TypeOK, CallTypes
<1>4. replyTokens'.pending \subseteq replyTokens.pending
  BY <1>2, <1>3
<1>5. \A c : (IsQueued(c)' <=> IsQueued(c)) /\ (Made(c)' <=> Made(c))
  BY <1>2 DEF IsQueued, QueueOf, Made, CallOf
<1>6. CASE \A h \in FileIds : MessagesOf(h)' = MessagesOf(h)
  <2>1. \A c : IsAnswered(c)' <=> IsAnswered(c)
    BY <1>6 DEF IsAnswered, ReplyAt, CallOf
  <2>2. QED
    BY <1>2, <1>4, <1>5, <2>1 DEF OnlyEnds
<1>7. ASSUME NEW p \in consumed, replyTokens' = Discard(replyTokens, consumed),
             \A h \in FileIds : MessagesOf(h)' =
                 IF h = p.client THEN Append(MessagesOf(h), CallReplyOf(p)) ELSE MessagesOf(h)
      PROVE  OneAnswered(p) /\ p \in replyTokens.pending
  <2>1. p \in replyTokens.pending /\ p \in PendingReply /\ p.client \in FileIds
    BY <1>1, <1>7 DEF Consumable, TypeInv, TypeOK, CallTypes, PendingReply
  <2>2. consumed = {p}
    <3>1. m.type = "FunctionCallRequest" /\ m \in Carried(g)
      BY DEF FunctionCallReply, Carried
    <3>2. \A r \in consumed : r \in replyTokens.pending /\ r.token = m.token
      BY <1>1 DEF Consumable
    <3>3. \A r \in consumed : CallOf(r) = CallOf(m)
      BY <3>1, <3>2, MatchInvSuffices DEF TokensMatchRequests, CallOf
    <3>4. QED
      BY <1>7, <3>2, <3>3 DEF LifeInv, GivenOnce
  <2>3. CallOf(CallReplyOf(p)) = CallOf(p) /\ CallReplyOf(p).type = "FunctionCallReply"
    BY DEF CallOf, CallReplyOf
  <2>4. PICK n : n = Len(MessagesOf(p.client)) + 1
    OBVIOUS
  <2>5. /\ n \in Nat /\ n \in 1 .. n
        /\ DOMAIN MessagesOf(p.client) = 1 .. n - 1
        /\ DOMAIN MessagesOf(p.client)' = 1 .. n
        /\ \A i \in 1 .. n - 1 : MessagesOf(p.client)'[i] = MessagesOf(p.client)[i]
        /\ MessagesOf(p.client)'[n] = CallReplyOf(p)
    <3>1. /\ MessagesOf(p.client) \in Seq(Message) /\ Len(MessagesOf(p.client)) \in Nat
      BY <2>1, InboxesAreTyped
    <3>2. MessagesOf(p.client)' = Append(MessagesOf(p.client), CallReplyOf(p))
      BY <1>7, <2>1
    <3>3. QED
      BY <2>4, <3>1, <3>2, LenProperties
  <2>6. \A h \in FileIds : \A i \in Nat :
           ReplyAt(h, i)' /\ ~(h = p.client /\ i = n) =>
               ReplyAt(h, i) /\ MessagesOf(h)'[i] = MessagesOf(h)[i]
    <3>1. ASSUME NEW h \in FileIds, NEW i \in Nat, ReplyAt(h, i)', h # p.client
          PROVE  ReplyAt(h, i) /\ MessagesOf(h)'[i] = MessagesOf(h)[i]
      BY <1>7, <3>1 DEF ReplyAt
    <3>2. ASSUME NEW i \in Nat, ReplyAt(p.client, i)', i # n
          PROVE  ReplyAt(p.client, i) /\ MessagesOf(p.client)'[i] = MessagesOf(p.client)[i]
      <4>1. i \in 1 .. n - 1
        BY <2>5, <3>2 DEF ReplyAt
      <4>2. QED
        BY <2>5, <3>2, <4>1 DEF ReplyAt
    <3>3. QED
      BY <3>1, <3>2
  <2>7. \A h \in FileIds : \A i \in Nat : ReplyAt(h, i) =>
           ReplyAt(h, i)' /\ MessagesOf(h)'[i] = MessagesOf(h)[i]
    <3>1. ASSUME NEW h \in FileIds, NEW i \in Nat, ReplyAt(h, i), h # p.client
          PROVE  ReplyAt(h, i)' /\ MessagesOf(h)'[i] = MessagesOf(h)[i]
      BY <1>7, <3>1 DEF ReplyAt
    <3>2. ASSUME NEW i \in Nat, ReplyAt(p.client, i)
          PROVE  ReplyAt(p.client, i)' /\ MessagesOf(p.client)'[i] = MessagesOf(p.client)[i]
      BY <2>5, <3>2 DEF ReplyAt
    <3>3. QED
      BY <3>1, <3>2
  <2>8. ReplyAt(p.client, n)' /\ CallOf(MessagesOf(p.client)'[n]) = CallOf(p)
    <3>1. n \in DOMAIN MessagesOf(p.client)'
      BY <2>5
    <3>2. QED
      BY <2>3, <2>5, <3>1 DEF ReplyAt
  <2>9. \A c : IsAnswered(c)' => IsAnswered(c) \/ c = CallOf(p)
    BY <2>6, <2>8 DEF IsAnswered, CallOf
  <2>10. \A c : IsAnswered(c) => IsAnswered(c)'
    BY <2>7 DEF IsAnswered, CallOf
  <2>11. \A c : c = CallOf(p) => IsAnswered(c)'
    <3>1. SUFFICES ASSUME NEW c, c = CallOf(p)
                   PROVE  \E h \in FileIds : \E i \in Nat :
                              ReplyAt(h, i)' /\ CallOf(MessagesOf(h)[i])' = c
      BY DEF IsAnswered
    <3>2. CallOf(MessagesOf(p.client)[n])' = CallOf(MessagesOf(p.client)'[n])
      BY DEF CallOf
    <3>3. QED
      BY <2>1, <2>5, <2>8, <3>1, <3>2
  <2>12. \A c : IsAnswered(c)' <=> IsAnswered(c) \/ c = CallOf(p)
    BY <2>9, <2>10, <2>11
  <2>13. QED
    BY <1>3, <1>5, <1>7, <2>1, <2>2, <2>12 DEF OneAnswered
<1>8. QED
  BY <1>2, <1>4, <1>6, <1>7

(* Every step only ends calls or does one of the other things to them.     *)
LifeSteps ==
    \/ OnlyEnds
    \/ \E c : OneMade(c)
    \/ \E f \in Daemons : ManyGiven(f)
    \/ \E p \in replyTokens.pending : p.service \in Daemons /\ OneAnswered(p)

LEMMA StepsAreLifeSteps ==
    ASSUME TypeInv, TypeInv', MatchInv, LifeInv, ServersAreDaemons, [Next]_vars
    PROVE  LifeSteps /\ ServersAreDaemons'
<1>1. ASSUME CallsAlone PROVE LifeSteps /\ ServersAreDaemons'
  <2>1. LifeSteps
    BY <1>1, CallsAloneLife DEF LifeSteps
  <2>2. /\ replyTokens' = replyTokens
        /\ \A s \in ServiceNames :
              services'[s] = services[s] \/ services'[s].file \in Daemons
    BY <1>1 DEF CallsAlone
  <2>3. QED
    BY <2>1, <2>2 DEF ServersAreDaemons
<1>2. ASSUME NEW f \in FileIds, Open(f) PROVE LifeSteps /\ ServersAreDaemons'
  <2>1. LifeSteps
    BY <1>2, OpenLife DEF LifeSteps
  <2>2. UNCHANGED <<services, replyTokens>>
    BY <1>2 DEF Open, tables
  <2>3. QED
    BY <2>1, <2>2 DEF ServersAreDaemons
<1>3. ASSUME NEW f \in FileIds, NEW s \in ServiceNames, FunctionCall(f, s)
      PROVE  LifeSteps /\ ServersAreDaemons'
  <2>1. LifeSteps
    BY <1>3, FunctionCallMakesOne DEF LifeSteps
  <2>2. /\ \A t \in ServiceNames : t # s => services'[t] = services[t]
        /\ services[s] # Nil /\ services'[s].file = services[s].file
        /\ replyTokens' = replyTokens
    BY <1>3, FunctionCallEffect
  <2>3. QED
    BY <2>1, <2>2 DEF ServersAreDaemons
<1>4. ASSUME NEW f \in FileIds, NEW g \in FileIds, NEW m \in held[g], NEW badFds, NEW shortage,
             FunctionCallReply(f, m, badFds, shortage)
      PROVE  LifeSteps /\ ServersAreDaemons'
  <2>1. /\ OnlyEnds \/ \E p \in replyTokens.pending : OneAnswered(p)
        /\ UNCHANGED services /\ replyTokens'.pending \subseteq replyTokens.pending
    BY <1>4, ReplyAnswersOne
  <2>2. QED
    BY <2>1 DEF ServersAreDaemons, LifeSteps
<1>5. ASSUME NEW f \in FileIds, PopMessage(f), UNCHANGED <<origin, lastCall>>
      PROVE  LifeSteps /\ ServersAreDaemons'
  <2>1. LifeSteps
    BY <1>5, PopMessageLife DEF LifeSteps
  <2>2. UNCHANGED <<services, replyTokens>>
    BY <1>5 DEF PopMessage
  <2>3. QED
    BY <2>1, <2>2 DEF ServersAreDaemons
<1>6. ASSUME NEW f \in FileIds, NEW s \in ServicesOf(f), NEW shortage,
             FlushRequests(f, s, shortage), UNCHANGED <<origin, lastCall>>
      PROVE  LifeSteps /\ ServersAreDaemons'
  <2>1. /\ ManyGiven(f)
        /\ \A t \in ServiceNames : services'[t] = services[t] \/
              (services[t] # Nil /\ services'[t].file = services[t].file)
    BY <1>6, FlushGivesMany
  <2>2. f \in Daemons
    BY DEF ServersAreDaemons, ServicesOf
  <2>3. \A p \in replyTokens'.pending : p \in replyTokens.pending \/ p.service = f
    BY <2>1 DEF ManyGiven
  <2>4. QED
    BY <2>1, <2>2, <2>3 DEF ServersAreDaemons, LifeSteps
<1>7. ASSUME NEW f \in FileIds, NEW shortage \in Shortages, Close(f, shortage)
      PROVE  LifeSteps /\ ServersAreDaemons'
  <2>1. OnlyEnds
    BY <1>7, CloseLife
  <2>2. services' = [s \in ServiceNames |-> IF s \in ServicesOf(f) THEN Nil ELSE services[s]]
    BY <1>7 DEF Close
  <2>3. QED
    BY <2>1, <2>2 DEF ServersAreDaemons, OnlyEnds, LifeSteps
<1>8. QED
  BY <1>1, <1>2, <1>3, <1>4, <1>5, <1>6, <1>7, CallSteps

LEMMA DaemonsInvariant == Spec => []ServersAreDaemons
<1>1. Init => ServersAreDaemons
  BY DEF Init, ServersAreDaemons, NoTokens
<1>2. TypeInv /\ TypeInv' /\ MatchInv /\ LifeInv /\ ServersAreDaemons /\ [Next]_vars
         => ServersAreDaemons'
  BY StepsAreLifeSteps
<1>3. QED
  BY <1>1, <1>2, TypeInvariant, MatchInvariant, LifeInvariant, PTL DEF Spec

(* The bus implements Rpc: a call is made, given to one server, answered   *)
(* by it and over, in this order, each of them at most once, and may end   *)
(* early at every point; the phase of a call is read off the places where  *)
(* it is.  This holds for every number of files, services and calls.       *)
THEOREM TheBusImplementsRpc == Spec => CallsAreExecutedOnce
<1>1. Init => Bus!Init
  <2> SUFFICES ASSUME Init PROVE Bus!Init
    OBVIOUS
  <2>1. TypeInv /\ LifeInv
    BY InitLife, InitTypes
  <2>2. LifeOf
    BY <2>1, LifeIsPlace
  <2>3. \A s \in ServiceNames : QueueOf(s) = <<>>
    BY DEF Init, QueueOf
  <2>4. \A f \in FileIds : MessagesOf(f) = <<>>
    BY DEF Init, MessagesOf
  <2>5. replyTokens.pending = {}
    BY DEF Init, NoTokens
  <2>6. \A c : ~IsQueued(c) /\ ~IsGiven(c) /\ ~IsAnswered(c)
    BY <2>3, <2>4, <2>5 DEF IsQueued, IsGiven, IsAnswered, ReplyAt
  <2>7. \A x \in Calls : ~Made(CallOf(x))
    BY DEF Made, CallOf, Calls, CallIds, Init
  <2>8. \A x \in Calls : Life(x) = Bus!Unmade
    BY <2>2, <2>6, <2>7 DEF LifeOf
  <2>9. QED
    BY <2>8 DEF Bus!Init
<1>2. /\ TypeInv /\ MatchInv /\ LifeInv /\ ServersAreDaemons
      /\ (TypeInv /\ LifeInv)' /\ [Next]_vars
      => [Bus!Next]_([x \in Calls |-> Life(x)])
  <2> SUFFICES ASSUME TypeInv, MatchInv, LifeInv, ServersAreDaemons, TypeInv', LifeInv',
                      [Next]_vars
               PROVE  Bus!Next
    OBVIOUS
  <2>1. LifeOf /\ LifeOf'
    BY LifeIsPlace, LifeIsPlaceAfter
  <2>2. LifeSteps
    BY StepsAreLifeSteps
  <2>3. QED
    BY <2>1, <2>2, EndingIsAStep, MakingIsAStep, GivingIsAStep, AnsweringIsAStep DEF LifeSteps
<1>3. QED
  BY <1>1, <1>2, TypeInvariant, MatchInvariant, LifeInvariant, DaemonsInvariant, PTL
     DEF Spec, CallsAreExecutedOnce, Bus!Spec

-------------------------------------------------------------------------------
(***************************************************************************)
(* The order of calls.  CallAt(f, i): the i-th message of the inbox of f   *)
(* is the request of a call.                                               *)
(***************************************************************************)
IsCall(m) == m.type = "FunctionCallRequest"
CallAt(f, i) == i \in DOMAIN MessagesOf(f) /\ IsCall(MessagesOf(f)[i])
Before(x, y) == x.client = y.client /\ x.origin = y.origin => x.call < y.call

(* Requests of calls are only with the provider of their service, ...      *)
CallsAreProvided ==
    /\ \A f \in FileIds : \A m \in held[f] :
          IsCall(m) => m.service \in ServiceNames /\ Provides(f, m.service)
    /\ \A f \in FileIds : \A i \in Nat : CallAt(f, i) =>
          /\ MessagesOf(f)[i].service \in ServiceNames
          /\ Provides(f, MessagesOf(f)[i].service)

(* ... their calls were made, ...                                          *)
CarriedAreMade ==
    /\ \A f \in FileIds : \A m \in held[f] : IsCall(m) => Made(CallOf(m))
    /\ \A f \in FileIds : \A i \in Nat : CallAt(f, i) => Made(CallOf(MessagesOf(f)[i]))

(* ... and what a process holds comes before what is in its inbox, that in *)
(* its order, and that before the queue of the service, in its order.      *)
HeldFirst ==
    \A f \in FileIds : \A m \in held[f] : IsCall(m) =>
        /\ \A i \in Nat : CallAt(f, i) /\ MessagesOf(f)[i].service = m.service =>
              Before(m, MessagesOf(f)[i])
        /\ \A s \in ServiceNames : \A j \in DOMAIN QueueOf(s) :
              m.service = s => Before(m, QueueOf(s)[j])
InboxNext ==
    \A f \in FileIds : \A i \in Nat : CallAt(f, i) =>
        /\ \A j \in Nat :
              i < j /\ CallAt(f, j) /\ MessagesOf(f)[j].service = MessagesOf(f)[i].service =>
                  Before(MessagesOf(f)[i], MessagesOf(f)[j])
        /\ \A s \in ServiceNames : \A j \in DOMAIN QueueOf(s) :
              MessagesOf(f)[i].service = s => Before(MessagesOf(f)[i], QueueOf(s)[j])
QueueInOrder ==
    \A s \in ServiceNames : \A i, j \in DOMAIN QueueOf(s) :
        i < j => Before(QueueOf(s)[i], QueueOf(s)[j])

OrderInv == CallsAreProvided /\ CarriedAreMade /\ HeldFirst /\ InboxNext /\ QueueInOrder

(* Steps that add no call to an inbox and take at most the first one of    *)
(* every inbox from it.                                                    *)
CallsFrom(shift) ==
    \A f \in FileIds : \A i \in Nat : CallAt(f, i)' =>
        /\ i + shift[f] \in Nat
        /\ CallAt(f, i + shift[f])
        /\ MessagesOf(f)'[i] = MessagesOf(f)[i + shift[f]]
HeldFrom(shift) ==
    \A f \in FileIds : \A m \in held'[f] : IsCall(m) =>
        \/ m \in held[f]
        \/ shift[f] = 1 /\ CallAt(f, 1) /\ m = MessagesOf(f)[1]

LEMMA OrderStays ==
    ASSUME TypeInv', OrderInv, NEW shift \in [FileIds -> Nat], CallsFrom(shift), HeldFrom(shift),
           \A s \in ServiceNames : QueueOf(s)' = QueueOf(s) \/ QueueOf(s)' = <<>>,
           \A c : Made(c) => Made(c)',
           \A f \in FileIds : \A s \in ServiceNames : Provides(f, s) =>
               \/ Provides(f, s)'
               \/ /\ \A m \in held'[f] : ~IsCall(m)
                  /\ \A i \in Nat : ~CallAt(f, i)'
    PROVE  OrderInv'
<1>1. \A f \in FileIds : \A i \in Nat : CallAt(f, i)' =>
         /\ i + shift[f] \in Nat /\ (shift[f] = 1 => 1 < i + shift[f])
         /\ CallAt(f, i + shift[f])
         /\ MessagesOf(f)'[i] = MessagesOf(f)[i + shift[f]]
  <2>1. ASSUME NEW f \in FileIds, NEW i \in Nat, CallAt(f, i)', shift[f] = 1
        PROVE  1 < i + shift[f]
    <3>1. i \in 1 .. Len(MessagesOf(f)')
      <4>1. inboxes' \in [FileIds -> MaybeInbox(Message)]
        BY DEF TypeInv, TypeOK, CallTypes, MaybeInbox
      <4>2. MessagesOf(f)' \in Seq(Message)
        BY <4>1, PrimedMessages, MessagesAreSeq
      <4>3. QED
        BY <2>1, <4>2, LenProperties DEF CallAt
    <3>2. QED
      BY <2>1, <3>1
  <2>2. QED
    BY <2>1 DEF CallsFrom
<1>2. \A f \in FileIds : \A m \in held'[f] : IsCall(m) =>
         m \in held[f] \/ (shift[f] = 1 /\ CallAt(f, 1) /\ m = MessagesOf(f)[1])
  BY DEF HeldFrom
<1>3. \A s \in ServiceNames : \A i \in DOMAIN QueueOf(s)' :
         i \in DOMAIN QueueOf(s) /\ QueueOf(s)'[i] = QueueOf(s)[i]
  OBVIOUS
<1>4. CallsAreProvided'
  BY <1>1, <1>2 DEF OrderInv, CallsAreProvided
<1>5. CarriedAreMade'
  BY <1>1, <1>2 DEF OrderInv, CarriedAreMade
<1>6. QueueInOrder'
  BY <1>3 DEF OrderInv, QueueInOrder
<1>7. InboxNext'
  BY <1>1, <1>3 DEF OrderInv, InboxNext
<1>8. HeldFirst'
  BY <1>1, <1>2, <1>3 DEF OrderInv, InboxNext, HeldFirst
<1>9. QED
  BY <1>4, <1>5, <1>6, <1>7, <1>8 DEF OrderInv

LEMMA InitOrder == Init => OrderInv
<1> SUFFICES ASSUME Init PROVE OrderInv
  OBVIOUS
<1>1. \A f \in FileIds : held[f] = {} /\ MessagesOf(f) = <<>>
  BY DEF Init, MessagesOf
<1>2. \A s \in ServiceNames : QueueOf(s) = <<>>
  BY DEF Init, QueueOf
<1>3. \A f \in FileIds : \A i \in Nat : ~CallAt(f, i)
  BY <1>1 DEF CallAt
<1>4. QED
  BY <1>1, <1>2, <1>3
     DEF OrderInv, CallsAreProvided, CarriedAreMade, HeldFirst, InboxNext, QueueInOrder

(* Where the requests of calls in an inbox come from. *)
LEMMA ExtendedCalls ==
    ASSUME TypeInv, TypeInv', NEW f \in FileIds, NEW A,
           Extended(Messages(inboxes'[f]), Messages(inboxes[f]), A),
           \A m \in A : ~IsCall(m), NEW i \in Nat, CallAt(f, i)'
    PROVE  CallAt(f, i) /\ MessagesOf(f)'[i] = MessagesOf(f)[i]
<1>1. /\ MessagesOf(f) = Messages(inboxes[f]) /\ MessagesOf(f) \in Seq(Message)
      /\ Len(MessagesOf(f)) \in Nat
  BY InboxesAreTyped
<1>2. MessagesOf(f)' = Messages(inboxes'[f])
  BY PrimedMessages
<1>3. MessagesOf(f)' \in Seq(Message) /\ Len(MessagesOf(f)') \in Nat
  <2>1. inboxes' \in [FileIds -> MaybeInbox(Message)]
    BY DEF TypeInv, TypeOK, CallTypes, MaybeInbox
  <2>2. QED
    BY <1>2, <2>1, MessagesAreSeq
<1>4. i \in DOMAIN MessagesOf(f)' /\ IsCall(MessagesOf(f)'[i])
  BY DEF CallAt, IsCall
<1>5. /\ i \in 1 .. Len(MessagesOf(f)')
      /\ DOMAIN MessagesOf(f) = 1 .. Len(MessagesOf(f))
  BY <1>1, <1>3, <1>4, LenProperties
<1>6. ~(i \in Len(MessagesOf(f)) + 1 .. Len(MessagesOf(f)'))
  BY <1>1, <1>2, <1>4 DEF Extended
<1>7. i \in 1 .. Len(MessagesOf(f))
  BY <1>1, <1>3, <1>5, <1>6
<1>8. MessagesOf(f)'[i] = MessagesOf(f)[i]
  BY <1>1, <1>2, <1>7 DEF Extended
<1>9. QED
  BY <1>4, <1>5, <1>7, <1>8 DEF CallAt

NoShift == [f \in FileIds |-> 0]

LEMMA NoShiftIsZero ==
    NoShift \in [FileIds -> Nat] /\ \A f \in FileIds : NoShift[f] = 0
BY DEF NoShift

LEMMA NoCallAppended ==
    ASSUME \A f \in FileIds : \A i \in Nat :
               CallAt(f, i)' => CallAt(f, i) /\ MessagesOf(f)'[i] = MessagesOf(f)[i]
    PROVE  CallsFrom(NoShift)
<1>1. \A f \in FileIds : \A i \in Nat : i + NoShift[f] = i
  BY NoShiftIsZero
<1>2. QED
  BY <1>1 DEF CallsFrom

LEMMA CallsAloneOrder ==
    ASSUME TypeInv, TypeInv', OrderInv, CallsAlone
    PROVE  OrderInv'
<1>1. \A s \in ServiceNames : QueueOf(s)' = QueueOf(s) \/ QueueOf(s)' = <<>>
  BY DEF CallsAlone, QueueOf
<1>2. \A m \in Quiet : ~IsCall(m)
  BY QuietHasNoReply DEF IsCall
<1>3. CallsFrom(NoShift)
  <2>1. \A f \in FileIds : \A i \in Nat :
           CallAt(f, i)' => CallAt(f, i) /\ MessagesOf(f)'[i] = MessagesOf(f)[i]
    BY <1>2, ExtendedCalls DEF CallsAlone, QuietBoxes
  <2>2. QED
    BY <2>1, NoCallAppended
<1>4. HeldFrom(NoShift)
  BY DEF CallsAlone, HeldFrom
<1>5. \A c : Made(c) => Made(c)'
  BY DEF CallsAlone, Made
<1>6. \A f \in FileIds : \A s \in ServiceNames : Provides(f, s) => Provides(f, s)'
  BY DEF CallsAlone, Provides
<1>7. QED
  BY <1>1, <1>3, <1>4, <1>5, <1>6, NoShiftIsZero, OrderStays

LEMMA OpenOrder ==
    ASSUME TypeInv, TypeInv', OrderInv, NEW f \in FileIds, Open(f)
    PROVE  OrderInv'
<1>1. /\ UNCHANGED <<services, inboxes, held>>
      /\ origin' = [origin EXCEPT ![f] = origin[f] + 1]
      /\ lastCall' = [lastCall EXCEPT ![f] = 0]
  BY DEF Open, apps
<1>2. /\ \A s \in ServiceNames : QueueOf(s)' = QueueOf(s) \/ QueueOf(s)' = <<>>
      /\ \A g \in FileIds : \A s \in ServiceNames : Provides(g, s) => Provides(g, s)'
      /\ CallsFrom(NoShift) /\ HeldFrom(NoShift)
  <2>1. \A g \in FileIds : \A i \in Nat :
           CallAt(g, i)' => CallAt(g, i) /\ MessagesOf(g)'[i] = MessagesOf(g)[i]
    BY <1>1 DEF CallAt, MessagesOf
  <2>2. QED
    BY <1>1, <2>1, NoCallAppended DEF QueueOf, Provides, HeldFrom
<1>3. \A c : Made(c) => Made(c)'
  <2>1. \A g \in FileIds : \/ origin'[g] > origin[g]
                           \/ origin'[g] = origin[g] /\ lastCall'[g] >= lastCall[g]
    BY <1>1 DEF TypeInv, TypeOK, FileTypes
  <2>2. QED
    BY <2>1, MadeStays
<1>4. QED
  BY <1>2, <1>3, NoShiftIsZero, OrderStays

LEMMA FunctionCallReplyOrder ==
    ASSUME TypeInv, TypeInv', OrderInv, NEW f \in FileIds, NEW m, NEW badFds, NEW shortage,
           FunctionCallReply(f, m, badFds, shortage)
    PROVE  OrderInv'
<1>1. /\ UNCHANGED <<services, origin, lastCall>>
      /\ held' = [held EXCEPT ![f] = held[f] \ {m}]
      /\ \/ \A g \in FileIds : MessagesOf(g)' = MessagesOf(g)
         \/ \E p \in replyTokens.pending : \A g \in FileIds : MessagesOf(g)' =
                IF g = p.client THEN Append(MessagesOf(g), CallReplyOf(p)) ELSE MessagesOf(g)
  BY FunctionCallReplyEffect DEF Consumable
<1>2. /\ \A s \in ServiceNames : QueueOf(s)' = QueueOf(s) \/ QueueOf(s)' = <<>>
      /\ \A g \in FileIds : \A s \in ServiceNames : Provides(g, s) => Provides(g, s)'
      /\ \A c : Made(c) => Made(c)'
  BY <1>1 DEF QueueOf, Provides, Made
<1>3. HeldFrom(NoShift)
  BY <1>1 DEF HeldFrom, TypeInv, TypeOK, ProcessTypes
<1>4. ASSUME NEW g \in FileIds, NEW i \in Nat, CallAt(g, i)'
      PROVE  CallAt(g, i) /\ MessagesOf(g)'[i] = MessagesOf(g)[i]
  <2>1. CASE MessagesOf(g)' = MessagesOf(g)
    BY <1>4, <2>1 DEF CallAt
  <2>2. ASSUME NEW p, MessagesOf(g)' = Append(MessagesOf(g), CallReplyOf(p))
        PROVE  CallAt(g, i) /\ MessagesOf(g)'[i] = MessagesOf(g)[i]
    <3>1. PICK box, r : box = MessagesOf(g) /\ r = CallReplyOf(p)
      OBVIOUS
    <3>2. box \in Seq(Message) /\ Len(box) \in Nat
      BY <3>1, InboxesAreTyped
    <3>3. ~IsCall(r)
      BY <3>1 DEF IsCall, CallReplyOf
    <3>4. i \in DOMAIN Append(box, r) /\ IsCall(Append(box, r)[i])
      BY <1>4, <2>2, <3>1 DEF CallAt, IsCall
    <3>5. i \in DOMAIN box /\ Append(box, r)[i] = box[i]
      <4>1. /\ DOMAIN Append(box, r) = 1 .. Len(box) + 1
            /\ DOMAIN box = 1 .. Len(box)
            /\ Append(box, r)[Len(box) + 1] = r
            /\ \A j \in 1 .. Len(box) : Append(box, r)[j] = box[j]
        BY <3>2, LenProperties
      <4>2. i # Len(box) + 1
        BY <3>3, <3>4, <4>1
      <4>3. QED
        BY <3>2, <3>4, <4>1, <4>2
    <3>6. QED
      BY <2>2, <3>1, <3>4, <3>5 DEF CallAt
  <2>3. QED
    BY <1>1, <2>1, <2>2
<1>5. QED
  BY <1>2, <1>3, <1>4, NoCallAppended, NoShiftIsZero, OrderStays

LEMMA PopMessageOrder ==
    ASSUME TypeInv, TypeInv', OrderInv, NEW f \in FileIds, PopMessage(f),
           UNCHANGED <<origin, lastCall>>
    PROVE  OrderInv'
<1>1. PICK shift : shift = [g \in FileIds |-> IF g = f THEN 1 ELSE 0]
  OBVIOUS
<1>2. shift \in [FileIds -> Nat] /\ shift[f] = 1 /\ \A g \in FileIds : g # f => shift[g] = 0
  BY <1>1
<1>3. /\ \A s \in ServiceNames : QueueOf(s)' = QueueOf(s) \/ QueueOf(s)' = <<>>
      /\ \A g \in FileIds : \A s \in ServiceNames : Provides(g, s) => Provides(g, s)'
      /\ \A c : Made(c) => Made(c)'
  BY DEF PopMessage, QueueOf, Provides, Made
<1>4. /\ MessagesOf(f) \in Seq(Message) /\ Len(MessagesOf(f)) \in Nat
      /\ MessagesOf(f) # <<>> /\ MessagesOf(f)' = Tail(MessagesOf(f))
      /\ \A g \in FileIds : g # f => MessagesOf(g)' = MessagesOf(g)
  BY InboxesAreTyped, PoppedReplies
<1>5. /\ DOMAIN MessagesOf(f) = 1 .. Len(MessagesOf(f)) /\ 1 \in 1 .. Len(MessagesOf(f))
      /\ DOMAIN MessagesOf(f)' = 1 .. Len(MessagesOf(f)) - 1
      /\ \A i \in 1 .. Len(MessagesOf(f)) - 1 : MessagesOf(f)'[i] = MessagesOf(f)[i + 1]
      /\ Head(MessagesOf(f)) = MessagesOf(f)[1]
  <2>1. PICK box : box = MessagesOf(f)
    OBVIOUS
  <2>2. /\ Tail(box) \in Seq(Message) /\ Len(Tail(box)) = Len(box) - 1
        /\ \A i \in 1 .. Len(Tail(box)) : Tail(box)[i] = box[i + 1]
        /\ Head(box) = box[1]
    BY <1>4, <2>1, HeadTailProperties
  <2>3. DOMAIN box = 1 .. Len(box) /\ DOMAIN Tail(box) = 1 .. Len(Tail(box)) /\ Len(box) # 0
    BY <1>4, <2>1, <2>2, LenProperties
  <2>4. QED
    BY <1>4, <2>1, <2>2, <2>3
<1>6. CallsFrom(shift)
  <2>1. ASSUME NEW g \in FileIds, g # f, NEW i \in Nat, CallAt(g, i)'
        PROVE  CallAt(g, i) /\ MessagesOf(g)'[i] = MessagesOf(g)[i] /\ i + shift[g] = i
    BY <1>2, <1>4, <2>1 DEF CallAt
  <2>2. ASSUME NEW i \in Nat, CallAt(f, i)'
        PROVE  CallAt(f, i + 1) /\ MessagesOf(f)'[i] = MessagesOf(f)[i + 1]
    <3>1. i \in 1 .. Len(MessagesOf(f)) - 1 /\ IsCall(MessagesOf(f)'[i])
      BY <1>5, <2>2 DEF CallAt, IsCall
    <3>2. i + 1 \in 1 .. Len(MessagesOf(f))
      BY <1>4, <3>1
    <3>3. QED
      BY <1>5, <3>1, <3>2 DEF CallAt
  <2>3. QED
    BY <1>2, <2>1, <2>2 DEF CallsFrom
<1>7. HeldFrom(shift)
  <2>1. \A g \in FileIds : held'[g] \subseteq
           held[g] \union (IF g = f THEN {MessagesOf(f)[1]} ELSE {})
    <3>1. Receive(f, MessagesOf(f)[1]) \/ LoseResult
      <4>1. inboxes[f] # Nil /\ inboxes[f].messages = MessagesOf(f)
        BY DEF PopMessage, HasMessage, MessagesOf
      <4>2. QED
        BY <1>5, <4>1 DEF PopMessage
    <3>2. QED
      BY <3>1, ReceivedBy
  <2>2. 1 \in DOMAIN MessagesOf(f)
    BY <1>5
  <2>3. QED
    BY <1>2, <2>1, <2>2 DEF HeldFrom, CallAt
<1>8. QED
  BY <1>2, <1>3, <1>6, <1>7, OrderStays

LEMMA CloseOrder ==
    ASSUME TypeInv, TypeInv', OrderInv, NEW f \in FileIds, NEW shortage, Close(f, shortage)
    PROVE  OrderInv'
<1>1. /\ services' = [s \in ServiceNames |-> IF s \in ServicesOf(f) THEN Nil ELSE services[s]]
      /\ UNCHANGED <<origin, lastCall>>
      /\ held' = [held EXCEPT ![f] = {}]
  BY DEF Close
<1>2. /\ \A s \in ServiceNames : QueueOf(s)' = QueueOf(s) \/ QueueOf(s)' = <<>>
      /\ \A c : Made(c) => Made(c)'
  BY <1>1 DEF QueueOf, Made
<1>3. held'[f] = {} /\ \A g \in FileIds : g # f => held'[g] = held[g]
  BY <1>1 DEF TypeInv, TypeOK, ProcessTypes
<1>4. HeldFrom(NoShift)
  BY <1>3 DEF HeldFrom
<1>5. \A m \in Quiet : ~IsCall(m)
  BY QuietHasNoReply DEF IsCall
<1>6. \A i \in Nat : ~CallAt(f, i)'
  <2>1. MessagesOf(f)' = Messages(inboxes'[f])
    BY PrimedMessages
  <2>2. MessagesOf(f)' \in Seq(Message) /\ Len(MessagesOf(f)') \in Nat
    <3>1. inboxes' \in [FileIds -> MaybeInbox(Message)]
      BY DEF TypeInv, TypeOK, CallTypes, MaybeInbox
    <3>2. QED
      BY <2>1, <3>1, MessagesAreSeq
  <2>3. DOMAIN MessagesOf(f)' = 1 .. Len(MessagesOf(f)')
    BY <2>2, LenProperties
  <2>4. \A j \in 1 .. Len(MessagesOf(f)') : MessagesOf(f)'[j] \in Quiet
    <3>1. Extended(MessagesOf(f)', <<>>, Quiet)
      BY <2>1, CloseQuiet
    <3>2. Len(<<>>) = 0
      OBVIOUS
    <3>3. QED
      BY <2>2, <3>1, <3>2 DEF Extended
  <2>5. QED
    BY <1>5, <2>3, <2>4 DEF CallAt, IsCall
<1>7. CallsFrom(NoShift)
  <2>1. ASSUME NEW g \in FileIds, NEW i \in Nat, CallAt(g, i)'
        PROVE  CallAt(g, i) /\ MessagesOf(g)'[i] = MessagesOf(g)[i]
    <3>1. g # f
      BY <1>6, <2>1
    <3>2. Extended(Messages(inboxes'[g]), Messages(inboxes[g]), Quiet)
      BY <3>1, CloseQuiet
    <3>3. QED
      BY <1>5, <2>1, <3>2, ExtendedCalls
  <2>2. QED
    BY <2>1, NoCallAppended
<1>8. \A g \in FileIds : \A s \in ServiceNames : Provides(g, s) => g = f \/ Provides(g, s)'
  BY <1>1 DEF Provides, ServicesOf
<1>9. QED
  BY <1>2, <1>3, <1>4, <1>6, <1>7, <1>8, NoShiftIsZero, OrderStays

LEMMA FunctionCallOrder ==
    ASSUME TypeInv, TypeInv', LifeInv, OrderInv, NEW f \in FileIds, NEW s \in ServiceNames,
           FunctionCall(f, s)
    PROVE  OrderInv'
<1>1. PICK new : new = [client |-> f, origin |-> origin[f], call |-> lastCall[f] + 1]
  OBVIOUS
<1>2. /\ QueueOf(s) \in Seq(QueuedRequest)
      /\ QueueOf(s)' = Append(QueueOf(s), new)
      /\ \A t \in ServiceNames : t # s => services'[t] = services[t]
      /\ services[s] # Nil /\ services'[s] # Nil
      /\ services'[s].file = services[s].file
      /\ \A g \in FileIds : MessagesOf(g)' = MessagesOf(g)
      /\ UNCHANGED <<origin, held>>
      /\ lastCall' = [lastCall EXCEPT ![f] = lastCall[f] + 1]
  BY <1>1, FunctionCallEffect
<1>3. PICK n : n = Len(QueueOf(s))
  OBVIOUS
<1>4. /\ n \in Nat
      /\ DOMAIN QueueOf(s) = 1 .. n
      /\ DOMAIN QueueOf(s)' = 1 .. n + 1
      /\ QueueOf(s)'[n + 1] = new
      /\ \A i \in 1 .. n : QueueOf(s)'[i] = QueueOf(s)[i]
  BY <1>2, <1>3, LenProperties
<1>5. \A t \in ServiceNames : t # s => QueueOf(t)' = QueueOf(t)
  BY <1>2 DEF QueueOf
<1>6. origin[f] \in Nat /\ lastCall[f] \in Nat
  BY DEF TypeInv, TypeOK, FileTypes
<1>7. \A x : Made(CallOf(x)) => Before(x, new)
  BY <1>1, <1>6 DEF Made, CallOf, Before
<1>8. \A c : Made(c) => Made(c)'
  <2>1. \A g \in FileIds : \/ origin'[g] > origin[g]
                           \/ origin'[g] = origin[g] /\ lastCall'[g] >= lastCall[g]
    BY <1>2 DEF TypeInv, TypeOK, FileTypes
  <2>2. QED
    BY <2>1, MadeStays
<1>9. \A g \in FileIds : \A i : /\ CallAt(g, i)' <=> CallAt(g, i)
                               /\ MessagesOf(g)'[i] = MessagesOf(g)[i]
  BY <1>2 DEF CallAt
<1>10. \A t \in ServiceNames : \A i \in DOMAIN QueueOf(t)' :
          \/ i \in DOMAIN QueueOf(t) /\ QueueOf(t)'[i] = QueueOf(t)[i]
          \/ t = s /\ i = n + 1 /\ QueueOf(t)'[i] = new
  BY <1>4, <1>5
<1>11. \A g \in FileIds : \A t \in ServiceNames : Provides(g, t)' <=> Provides(g, t)
  BY <1>2 DEF Provides
<1>12. CallsAreProvided'
  BY <1>2, <1>9, <1>11 DEF OrderInv, CallsAreProvided
<1>13. CarriedAreMade'
  BY <1>2, <1>8, <1>9 DEF OrderInv, CarriedAreMade
<1>14. HeldFirst'
  BY <1>2, <1>7, <1>9, <1>10 DEF OrderInv, HeldFirst, CarriedAreMade
<1>15. InboxNext'
  BY <1>7, <1>9, <1>10 DEF OrderInv, InboxNext, CarriedAreMade
<1>16. QueueInOrder'
  <2>1. \A t \in ServiceNames : \A i \in DOMAIN QueueOf(t) : Made(CallOf(QueueOf(t)[i]))
    BY DEF LifeInv, AllMade, IsQueued
  <2>2. ASSUME NEW t \in ServiceNames, NEW i \in DOMAIN QueueOf(t)', NEW j \in DOMAIN QueueOf(t)',
               i < j
        PROVE  Before(QueueOf(t)'[i], QueueOf(t)'[j])
    <3>1. CASE j \in DOMAIN QueueOf(t) /\ QueueOf(t)'[j] = QueueOf(t)[j] /\ t # s
      BY <1>5, <2>2, <3>1 DEF OrderInv, QueueInOrder
    <3>2. CASE t = s /\ j \in 1 .. n
      <4>1. i \in 1 .. n
        BY <1>4, <2>2, <3>2
      <4>2. QED
        BY <1>4, <2>2, <3>2, <4>1 DEF OrderInv, QueueInOrder
    <3>3. CASE t = s /\ j = n + 1
      <4>1. i \in 1 .. n
        BY <1>4, <2>2, <3>3
      <4>2. QED
        BY <1>4, <1>7, <2>1, <3>3, <4>1
    <3>4. QED
      BY <1>4, <1>10, <3>1, <3>2, <3>3
  <2>3. QED
    BY <2>2 DEF QueueInOrder, Before
<1>17. QED
  BY <1>12, <1>13, <1>14, <1>15, <1>16 DEF OrderInv

LEMMA FlushRequestsOrder ==
    ASSUME TypeInv, TypeInv', LifeInv, OrderInv, NEW f \in FileIds, NEW s \in ServicesOf(f),
           NEW shortage, FlushRequests(f, s, shortage), UNCHANGED <<origin, lastCall>>
    PROVE  OrderInv'
<1>1. PICK q : q = QueueOf(s)
  OBVIOUS
<1>2. /\ q \in Seq(QueuedRequest) /\ Len(q) \in Nat \ {0}
      /\ QueueOf(s)' = <<>>
      /\ services'[s] # Nil /\ services'[s].file = services[s].file
      /\ \A t \in ServiceNames : t # s => services'[t] = services[t]
      /\ \A g \in FileIds : g # f => MessagesOf(g)' = MessagesOf(g)
  BY <1>1, FlushEffect
<1>3. \E ts : /\ MessagesOf(f)' = <<>> \/ MessagesOf(f)' = FlushedRest(s, QueueOf(s), ts)
              /\ \A g \in FileIds : held'[g] \subseteq
                     held[g] \union (IF g = f THEN {FlushRequest(s, QueueOf(s), ts, 1)} ELSE {})
  <2>1. PICK ts \in Allocate(replyTokens, Len(QueueOf(s))) :
            /\ MessagesOf(f)' = <<>> \/ MessagesOf(f)' = FlushedRest(s, QueueOf(s), ts)
            /\ \A g \in FileIds : held'[g] \subseteq
                   held[g] \union (IF g = f THEN {FlushRequest(s, QueueOf(s), ts, 1)} ELSE {})
    BY FlushEffect
  <2>2. QED
    BY <2>1
<1>4. PICK ts : /\ MessagesOf(f)' = <<>> \/ MessagesOf(f)' = FlushedRest(s, q, ts)
                /\ \A g \in FileIds : held'[g] \subseteq
                       held[g] \union (IF g = f THEN {FlushRequest(s, q, ts, 1)} ELSE {})
  BY <1>1, <1>3
<1>5. /\ s \in ServiceNames /\ Provides(f, s) /\ DOMAIN q = 1 .. Len(q)
      /\ \A t \in ServiceNames : t # s => QueueOf(t)' = QueueOf(t)
      /\ \A g \in FileIds : \A t \in ServiceNames : Provides(g, t) => Provides(g, t)'
  BY <1>2, LenProperties DEF ServicesOf, Provides, QueueOf
<1>6. PICK req : req = [i \in 1 .. Len(q) |-> FlushRequest(s, q, ts, i)]
  OBVIOUS
<1>7. \A i \in 1 .. Len(q) :
         /\ IsCall(req[i]) /\ req[i].service = s
         /\ req[i].client = q[i].client /\ req[i].origin = q[i].origin /\ req[i].call = q[i].call
  BY <1>6 DEF FlushRequest, IsCall
<1>8. \A i \in Nat : CallAt(f, i)' =>
         i + 1 \in 1 .. Len(q) /\ 1 < i + 1 /\ MessagesOf(f)'[i] = req[i + 1]
  <2>1. CASE MessagesOf(f)' = <<>>
    BY <2>1 DEF CallAt
  <2>2. CASE MessagesOf(f)' = FlushedRest(s, q, ts)
    BY <1>2, <1>6, <2>2 DEF CallAt, FlushedRest
  <2>3. QED
    BY <1>4, <2>1, <2>2
<1>9. \A g \in FileIds : g # f =>
         \A i : CallAt(g, i)' => CallAt(g, i) /\ MessagesOf(g)'[i] = MessagesOf(g)[i]
  BY <1>2 DEF CallAt
<1>10. \A g \in FileIds : \A m \in held'[g] : m \in held[g] \/ (g = f /\ m = req[1])
  BY <1>2, <1>4, <1>6
<1>11. \A i \in 1 .. Len(q) : Made(CallOf(q[i]))
  BY <1>1, <1>5 DEF LifeInv, AllMade, IsQueued
<1>12. \A i \in 1 .. Len(q) : CallOf(req[i]) = CallOf(q[i])
  BY <1>7 DEF CallOf
<1>13. \A c : Made(c) => Made(c)'
  BY DEF Made
<1>14. \A i, j \in 1 .. Len(q) : i < j => Before(req[i], req[j])
  <2>1. \A i, j \in 1 .. Len(q) : i < j => Before(q[i], q[j])
    BY <1>1, <1>5 DEF OrderInv, QueueInOrder
  <2>2. QED
    BY <1>7, <2>1 DEF Before
<1>15. 1 \in 1 .. Len(q)
  BY <1>2
<1>16. CallsAreProvided'
  BY <1>5, <1>7, <1>8, <1>9, <1>10, <1>15 DEF OrderInv, CallsAreProvided
<1>17. CarriedAreMade'
  BY <1>8, <1>9, <1>10, <1>11, <1>12, <1>13, <1>15 DEF OrderInv, CarriedAreMade
<1>18. QueueInOrder'
  BY <1>2, <1>5 DEF OrderInv, QueueInOrder
<1>19. InboxNext'
  <2>1. ASSUME NEW i \in Nat, NEW j \in Nat, CallAt(f, i)', CallAt(f, j)', i < j
        PROVE  Before(MessagesOf(f)'[i], MessagesOf(f)'[j])
    BY <1>8, <1>14, <2>1
  <2>2. \A i \in Nat : CallAt(f, i)' => MessagesOf(f)'[i].service = s
    BY <1>7, <1>8
  <2>3. \A t \in ServiceNames : \A j \in DOMAIN QueueOf(t)' :
           t # s /\ j \in DOMAIN QueueOf(t) /\ QueueOf(t)'[j] = QueueOf(t)[j]
    BY <1>2, <1>5
  <2>4. QED
    BY <1>9, <2>1, <2>2, <2>3 DEF OrderInv, InboxNext
<1>20. HeldFirst'
  <2>1. \A t \in ServiceNames : \A j \in DOMAIN QueueOf(t)' :
           t # s /\ j \in DOMAIN QueueOf(t) /\ QueueOf(t)'[j] = QueueOf(t)[j]
    BY <1>2, <1>5
  <2>2. ASSUME NEW g \in FileIds, NEW m \in held'[g], IsCall(m), NEW i \in Nat, CallAt(g, i)',
               MessagesOf(g)'[i].service = m.service
        PROVE  Before(m, MessagesOf(g)'[i])
    <3>1. CASE g # f
      BY <1>9, <1>10, <2>2, <3>1 DEF OrderInv, HeldFirst
    <3>2. CASE g = f /\ m = req[1]
      BY <1>8, <1>14, <1>15, <2>2, <3>2
    <3>3. CASE g = f /\ m \in held[f]
      <4>1. m.service = s
        BY <1>7, <1>8, <2>2, <3>3
      <4>2. i + 1 \in 1 .. Len(q) /\ MessagesOf(f)'[i] = req[i + 1]
        BY <1>8, <2>2, <3>3
      <4>3. Before(m, q[i + 1])
        BY <1>1, <1>5, <2>2, <3>3, <4>1, <4>2 DEF OrderInv, HeldFirst
      <4>4. QED
        BY <1>7, <3>3, <4>2, <4>3 DEF Before
    <3>4. QED
      BY <1>10, <2>2, <3>1, <3>2, <3>3
  <2>3. ASSUME NEW g \in FileIds, NEW m \in held'[g], IsCall(m),
               NEW t \in ServiceNames, NEW j \in DOMAIN QueueOf(t)', m.service = t
        PROVE  Before(m, QueueOf(t)'[j])
    BY <1>7, <1>10, <1>15, <2>1, <2>3 DEF OrderInv, HeldFirst
  <2>4. QED
    BY <2>2, <2>3 DEF HeldFirst, Before
<1>21. QED
  BY <1>16, <1>17, <1>18, <1>19, <1>20 DEF OrderInv

LEMMA NextOrder == TypeInv /\ TypeInv' /\ LifeInv /\ OrderInv /\ [Next]_vars => OrderInv'
BY CallSteps, CallsAloneOrder, OpenOrder, FunctionCallOrder, FunctionCallReplyOrder,
   PopMessageOrder, FlushRequestsOrder, CloseOrder

LEMMA OrderInvariant == Spec => []OrderInv
<1>1. Init => OrderInv
  BY InitOrder
<1>2. TypeInv /\ TypeInv' /\ LifeInv /\ OrderInv /\ [Next]_vars => OrderInv'
  BY NextOrder
<1>3. QED
  BY <1>1, <1>2, TypeInvariant, LifeInvariant, PTL DEF Spec

(* The calls of a connection to a service are executed in the order they   *)
(* were made: at every moment the requests the provider of the service     *)
(* holds, those in its inbox and those in the queue of the service follow  *)
(* each other in that order, whatever opened, closed, was flushed, was     *)
(* answered or was lost in between (execute_function_call, ServiceMap and  *)
(* execute_inbox_next_message).                                            *)
THEOREM CallsKeepTheirOrder == Spec => []CallsStayInOrder
<1>1. TypeInv /\ OrderInv => CallsStayInOrder
  <2> SUFFICES ASSUME TypeInv, OrderInv, NEW s \in ServiceNames, services[s] # Nil
               PROVE  LET inbox == MessagesOf(services[s].file)
                          queue == services[s].queue
                          isCall(m) == m.type = "FunctionCallRequest" /\ m.service = s
                          calls == {i \in DOMAIN inbox : isCall(inbox[i])}
                          before(x, y) ==
                              x.client = y.client /\ x.origin = y.origin => x.call < y.call
                      IN  /\ \A i, j \in calls : i < j => before(inbox[i], inbox[j])
                          /\ \A i, j \in DOMAIN queue : i < j => before(queue[i], queue[j])
                          /\ \A i \in calls, j \in DOMAIN queue : before(inbox[i], queue[j])
                          /\ \A m \in held[services[s].file] : isCall(m) =>
                                /\ \A i \in calls : before(m, inbox[i])
                                /\ \A j \in DOMAIN queue : before(m, queue[j])
    BY DEF CallsStayInOrder
  <2>1. PICK f \in FileIds : f = services[s].file
    BY DEF TypeInv, TypeOK, CallTypes
  <2>2. PICK inbox, queue : inbox = MessagesOf(f) /\ queue = QueueOf(s)
    OBVIOUS
  <2>3. queue = services[s].queue
    BY <2>2 DEF QueueOf
  <2>4. DOMAIN inbox \subseteq Nat
    <3>1. inbox \in Seq(Message) /\ Len(inbox) \in Nat
      BY <2>2, InboxesAreTyped
    <3>2. DOMAIN inbox = 1 .. Len(inbox)
      BY <3>1, LenProperties
    <3>3. QED
      BY <3>1, <3>2
  <2>5. \A i \in DOMAIN inbox : IsCall(inbox[i]) => CallAt(f, i)
    BY <2>2 DEF CallAt
  <2>6. \A i, j \in DOMAIN inbox :
           /\ IsCall(inbox[i]) /\ IsCall(inbox[j]) /\ inbox[i].service = s /\ inbox[j].service = s
           /\ i < j
           => Before(inbox[i], inbox[j])
    BY <2>2, <2>4, <2>5 DEF OrderInv, InboxNext
  <2>7. \A i, j \in DOMAIN queue : i < j => Before(queue[i], queue[j])
    BY <2>2 DEF OrderInv, QueueInOrder
  <2>8. \A i \in DOMAIN inbox, j \in DOMAIN queue :
           IsCall(inbox[i]) /\ inbox[i].service = s => Before(inbox[i], queue[j])
    BY <2>2, <2>4, <2>5 DEF OrderInv, InboxNext
  <2>9. \A m \in held[f] : IsCall(m) /\ m.service = s =>
           /\ \A i \in DOMAIN inbox :
                 IsCall(inbox[i]) /\ inbox[i].service = s => Before(m, inbox[i])
           /\ \A j \in DOMAIN queue : Before(m, queue[j])
    BY <2>2, <2>4, <2>5 DEF OrderInv, HeldFirst
  <2>10. QED
    BY <2>1, <2>2, <2>3, <2>6, <2>7, <2>8, <2>9 DEF IsCall, Before
<1>2. QED
  BY <1>1, TypeInvariant, OrderInvariant, PTL

-------------------------------------------------------------------------------
(***************************************************************************)
(* Nobody waits in vain.  NoStrandedCaller alone is not inductive: when a  *)
(* server closes, its callers are told by the name of the service, so a    *)
(* request that the server has must be one of the service the caller       *)
(* called; and it is told only who has an inbox, so an inbox must stay as  *)
(* long as its connection.                                                 *)
(***************************************************************************)
HasIn(f, m) == \E i \in DOMAIN MessagesOf(f) : m = MessagesOf(f)[i]
HasCall(f, m) == IsCall(m) /\ (m \in held[f] \/ HasIn(f, m))

Mine(f, c) == <<f, origin[f], c.call>>
InQueue(f, c) ==
    \E i \in DOMAIN QueueOf(c.service) : CallOf(QueueOf(c.service)[i]) = Mine(f, c)
WithServer(f, c) ==
    \E p \in replyTokens.pending : \E m :
        /\ CallOf(p) = Mine(f, c)
        /\ HasCall(p.service, m) /\ m.token = p.token /\ m.service = c.service
Tells(m, f, c) ==
    \/ m.type = "FunctionCallReply" /\ CallOf(m) = Mine(f, c)
    \/ m.type = "ServiceClosed" /\ m.service = c.service
IsTold(f, c) == \E m : HasIn(f, m) /\ Tells(m, f, c)

Waits(f, c) ==
    /\ f \in open
    /\ c.inboxed => /\ inboxes[f] # Nil
                    /\ InQueue(f, c) \/ WithServer(f, c) \/ IsTold(f, c)
WaitInv == \A f \in FileIds : \A c \in awaiting[f] : Waits(f, c)

LEMMA WaitInvSuffices ==
    ASSUME TypeInv, WaitInv
    PROVE  NoStrandedCaller
<1> SUFFICES ASSUME NEW f \in open, NEW c \in awaiting[f], c.inboxed
             PROVE  Underway(f, c)
  BY DEF NoStrandedCaller
<1>1. f \in FileIds
  BY DEF TypeInv, TypeOK, FileTypes
<1>2. \A x : CallOf(x) = Mine(f, c) => x.client = f /\ x.origin = origin[f] /\ x.call = c.call
  BY DEF CallOf, Mine
<1>3. \A g : \A m : HasIn(g, m) => m \in Range(MessagesOf(g))
  BY DEF HasIn, Range
<1>4. CASE InQueue(f, c)
  BY <1>2, <1>4 DEF InQueue, Underway
<1>5. CASE WithServer(f, c)
  BY <1>2, <1>3, <1>5 DEF WithServer, HasCall, IsCall, Underway
<1>6. CASE IsTold(f, c)
  BY <1>2, <1>3, <1>6 DEF IsTold, Tells, Underway
<1>7. QED
  BY <1>1, <1>4, <1>5, <1>6 DEF WaitInv, Waits

(* Messages that stay where they are are still there. *)
LEMMA ExtendedKeeps ==
    ASSUME TypeInv, TypeInv', NEW f \in FileIds, NEW A,
           Extended(Messages(inboxes'[f]), Messages(inboxes[f]), A)
    PROVE  \A m : HasIn(f, m) => HasIn(f, m)'
<1>1. /\ MessagesOf(f) = Messages(inboxes[f]) /\ MessagesOf(f)' = Messages(inboxes'[f])
      /\ MessagesOf(f) \in Seq(Message) /\ Len(MessagesOf(f)) \in Nat
  BY InboxesAreTyped, PrimedMessages
<1>2. MessagesOf(f)' \in Seq(Message) /\ Len(MessagesOf(f)') \in Nat
  <2>1. inboxes' \in [FileIds -> MaybeInbox(Message)]
    BY DEF TypeInv, TypeOK, CallTypes, MaybeInbox
  <2>2. QED
    BY <1>1, <2>1, MessagesAreSeq
<1>3. DOMAIN MessagesOf(f) = 1 .. Len(MessagesOf(f)) /\ DOMAIN MessagesOf(f)' = 1 .. Len(MessagesOf(f)')
  BY <1>1, <1>2, LenProperties
<1>4. /\ Len(MessagesOf(f)) <= Len(MessagesOf(f)')
      /\ \A i \in 1 .. Len(MessagesOf(f)) : MessagesOf(f)'[i] = MessagesOf(f)[i]
  BY <1>1 DEF Extended
<1>5. \A i \in DOMAIN MessagesOf(f) :
         i \in DOMAIN MessagesOf(f)' /\ MessagesOf(f)'[i] = MessagesOf(f)[i]
  BY <1>1, <1>2, <1>3, <1>4
<1>6. QED
  BY <1>5 DEF HasIn

(* A call that loses nothing still waits. *)
QueueStays(s) ==
    \A i \in DOMAIN QueueOf(s) : i \in DOMAIN QueueOf(s)' /\ QueueOf(s)'[i] = QueueOf(s)[i]

LEMMA QueueWaits ==
    ASSUME NEW f, NEW c, InQueue(f, c), QueueStays(c.service), origin'[f] = origin[f]
    PROVE  InQueue(f, c)'
BY DEF InQueue, QueueStays, Mine, CallOf

LEMMA WithServerWaits ==
    ASSUME NEW f, NEW c, NEW p \in replyTokens'.pending, NEW m, CallOf(p) = Mine(f, c),
           HasCall(p.service, m)', m.token = p.token, m.service = c.service,
           origin'[f] = origin[f]
    PROVE  WithServer(f, c)'
<1>1. CallOf(p) = Mine(f, c)'
  BY DEF Mine
<1>2. QED
  BY <1>1 DEF WithServer, CallOf

LEMMA ToldWaits ==
    ASSUME NEW f, NEW c, NEW m, Tells(m, f, c), HasIn(f, m)', origin'[f] = origin[f]
    PROVE  IsTold(f, c)'
<1>1. Tells(m, f, c)'
  BY DEF Tells, Mine, CallOf
<1>2. QED
  BY <1>1 DEF IsTold

LEMMA StillWaits ==
    ASSUME NEW f, NEW c, Waits(f, c), f \in open', origin'[f] = origin[f],
           inboxes[f] # Nil => inboxes'[f] # Nil, QueueStays(c.service),
           \A p \in replyTokens.pending : p \in replyTokens'.pending,
           \A p \in replyTokens.pending : \A m : HasCall(p.service, m) => HasCall(p.service, m)',
           \A m : HasIn(f, m) => HasIn(f, m)'
    PROVE  Waits(f, c)'
<1>1. InQueue(f, c) => InQueue(f, c)'
  BY QueueWaits
<1>2. WithServer(f, c) => WithServer(f, c)'
  <2> SUFFICES ASSUME WithServer(f, c) PROVE WithServer(f, c)'
    OBVIOUS
  <2>1. PICK p \in replyTokens.pending : \E m :
           /\ CallOf(p) = Mine(f, c)
           /\ HasCall(p.service, m) /\ m.token = p.token /\ m.service = c.service
    BY DEF WithServer
  <2>2. PICK m :
           /\ CallOf(p) = Mine(f, c)
           /\ HasCall(p.service, m) /\ m.token = p.token /\ m.service = c.service
    BY <2>1
  <2>3. p \in replyTokens'.pending /\ HasCall(p.service, m)'
    BY <2>2
  <2>4. QED
    BY <2>2, <2>3, WithServerWaits
<1>3. IsTold(f, c) => IsTold(f, c)'
  BY ToldWaits DEF IsTold
<1>4. QED
  BY <1>1, <1>2, <1>3 DEF Waits

LEMMA InitWait == Init => WaitInv
BY DEF Init, WaitInv

LEMMA CallsAloneWait ==
    ASSUME TypeInv, TypeInv', WaitInv, CallsAlone
    PROVE  WaitInv'
<1> SUFFICES ASSUME NEW f \in FileIds, NEW c \in awaiting'[f]
             PROVE  Waits(f, c)'
  BY DEF WaitInv
<1>1. /\ UNCHANGED <<replyTokens, origin, open, awaiting>>
      /\ BoxesStay
      /\ \A g \in FileIds : Extended(Messages(inboxes'[g]), Messages(inboxes[g]), Quiet)
      /\ \A g \in FileIds : \A m \in held[g] : m \in held'[g] \/ m.type = "SubscribeRequest"
  BY DEF CallsAlone, QuietBoxes
<1>2. c \in awaiting[f] /\ c.service \in ServiceNames /\ Waits(f, c)
  BY <1>1 DEF WaitInv, TypeInv, TypeOK, ProcessTypes
<1>3. QueueStays(c.service)
  <2>1. services'[c.service] = services[c.service] \/ services[c.service] = Nil
    BY <1>2 DEF CallsAlone
  <2>2. QED
    BY <2>1 DEF QueueStays, QueueOf
<1>4. \A g \in FileIds : \A m : HasIn(g, m) => HasIn(g, m)'
  BY <1>1, ExtendedKeeps
<1>5. \A g \in FileIds : \A m : HasCall(g, m) => HasCall(g, m)'
  BY <1>1, <1>4 DEF HasCall, IsCall
<1>6. \A p \in replyTokens.pending : p.service \in FileIds
  BY DEF TypeInv, TypeOK, CallTypes, PendingReply
<1>7. /\ \A p \in replyTokens.pending : p \in replyTokens'.pending
      /\ \A p \in replyTokens.pending : \A m : HasCall(p.service, m) => HasCall(p.service, m)'
      /\ f \in open' /\ origin'[f] = origin[f] /\ (inboxes[f] # Nil => inboxes'[f] # Nil)
  BY <1>1, <1>2, <1>5, <1>6 DEF BoxesStay, Waits
<1>8. QED
  BY <1>2, <1>3, <1>4, <1>7, StillWaits

LEMMA OpenWait ==
    ASSUME TypeInv, TypeInv', WaitInv, NEW f \in FileIds, Open(f)
    PROVE  WaitInv'
<1> SUFFICES ASSUME NEW g \in FileIds, NEW c \in awaiting'[g]
             PROVE  Waits(g, c)'
  BY DEF WaitInv
<1>1. /\ UNCHANGED <<services, inboxes, replyTokens, held, awaiting>>
      /\ f \notin open /\ open' = open \union {f}
      /\ origin' = [origin EXCEPT ![f] = origin[f] + 1]
  BY DEF Open, tables, apps
<1>2. Waits(g, c) /\ g \in open
  BY <1>1 DEF WaitInv, Waits
<1>3. origin'[g] = origin[g] /\ g \in open'
  BY <1>1, <1>2 DEF TypeInv, TypeOK, FileTypes
<1>4. \A h : MessagesOf(h)' = MessagesOf(h) /\ QueueOf(h)' = QueueOf(h)
  BY <1>1 DEF MessagesOf, QueueOf
<1>5. \A h : \A m : (HasIn(h, m) => HasIn(h, m)') /\ (HasCall(h, m) => HasCall(h, m)')
  BY <1>1, <1>4 DEF HasIn, HasCall
<1>6. QueueStays(c.service)
  BY <1>4 DEF QueueStays
<1>7. QED
  BY <1>1, <1>2, <1>3, <1>5, <1>6, StillWaits

LEMMA FunctionCallWait ==
    ASSUME TypeInv, TypeInv', WaitInv, NEW f \in FileIds, NEW s \in ServiceNames,
           FunctionCall(f, s)
    PROVE  WaitInv'
<1> SUFFICES ASSUME NEW g \in FileIds, NEW c \in awaiting'[g]
             PROVE  Waits(g, c)'
  BY DEF WaitInv
<1> PICK new : new = [client |-> f, origin |-> origin[f], call |-> lastCall[f] + 1]
  OBVIOUS
<1> PICK mine : mine = [call |-> lastCall[f] + 1, service |-> s, inboxed |-> inboxes[f] # Nil]
  OBVIOUS
<1>1. /\ f \in open /\ open' = open
      /\ awaiting' = [awaiting EXCEPT ![f] = awaiting[f] \union {mine}]
      /\ inboxes' = [inboxes EXCEPT ![services[s].file] = Notify(inboxes[services[s].file])]
  BY DEF FunctionCall
<1>2. /\ QueueOf(s) \in Seq(QueuedRequest)
      /\ QueueOf(s)' = Append(QueueOf(s), new)
      /\ \A t \in ServiceNames : t # s => services'[t] = services[t]
      /\ \A h \in FileIds : MessagesOf(h)' = MessagesOf(h)
      /\ UNCHANGED <<replyTokens, origin, held>>
  BY FunctionCallEffect
<1>3. /\ Len(QueueOf(s)) \in Nat
      /\ DOMAIN QueueOf(s) = 1 .. Len(QueueOf(s))
      /\ DOMAIN QueueOf(s)' = 1 .. Len(QueueOf(s)) + 1
      /\ QueueOf(s)'[Len(QueueOf(s)) + 1] = new
      /\ \A i \in DOMAIN QueueOf(s) : QueueOf(s)'[i] = QueueOf(s)[i]
  BY <1>2, LenProperties
<1>4. inboxes[g] # Nil => inboxes'[g] # Nil
  <2>1. inboxes \in [FileIds -> MaybeInbox(Message)]
    BY InboxesAreTyped
  <2>2. inboxes[g] # Nil => Notify(inboxes[g]) # Nil
    BY <2>1, BoxIsNotNil
  <2>3. inboxes'[g] \in {inboxes[g], Notify(inboxes[g])}
    BY <1>1, <2>1
  <2>4. QED
    BY <2>2, <2>3
<1>5. CASE c \in awaiting[g]
  <2>1. Waits(g, c) /\ c.service \in ServiceNames
    BY <1>5 DEF WaitInv, TypeInv, TypeOK, ProcessTypes
  <2>2. QueueStays(c.service)
    <3>1. CASE c.service = s
      <4>1. QueueStays(s)
        BY <1>3 DEF QueueStays
      <4>2. QED
        BY <3>1, <4>1
    <3>2. CASE c.service # s
      BY <1>2, <2>1, <3>2 DEF QueueStays, QueueOf
    <3>3. QED
      BY <3>1, <3>2
  <2>3. \A h \in FileIds : \A m :
           (HasIn(h, m) => HasIn(h, m)') /\ (HasCall(h, m) => HasCall(h, m)')
    BY <1>2 DEF HasIn, HasCall
  <2>4. \A p \in replyTokens.pending : p.service \in FileIds
    BY DEF TypeInv, TypeOK, CallTypes, PendingReply
  <2>5. /\ \A p \in replyTokens.pending : p \in replyTokens'.pending
        /\ \A p \in replyTokens.pending : \A m : HasCall(p.service, m) => HasCall(p.service, m)'
        /\ g \in open' /\ origin'[g] = origin[g]
    BY <1>1, <1>2, <2>1, <2>3, <2>4 DEF Waits
  <2>6. QED
    BY <1>4, <2>1, <2>2, <2>3, <2>5, StillWaits
<1>6. CASE c \notin awaiting[g]
  <2>1. g = f /\ c = mine
    BY <1>1, <1>6 DEF TypeInv, TypeOK, ProcessTypes
  <2>2. c.inboxed => inboxes'[g] # Nil
    BY <1>4, <2>1
  <2>3. InQueue(g, c)'
    <3>1. c.service = s /\ CallOf(new) = <<g, origin'[g], c.call>>
      BY <1>2, <2>1 DEF CallOf
    <3>2. Len(QueueOf(s)) + 1 \in DOMAIN QueueOf(s)'
      BY <1>3
    <3>3. QED
      BY <1>3, <3>1, <3>2 DEF InQueue, Mine, CallOf
  <2>4. QED
    BY <1>1, <2>1, <2>2, <2>3 DEF Waits
<1>7. QED
  BY <1>5, <1>6

(* A reply that can be queued and has valid descriptors.  The token it     *)
(* uses up is that of the request it gives up, and no other.               *)
LEMMA FunctionCallReplyWait ==
    ASSUME TypeInv, TypeInv', MatchInv, LifeInv, WaitInv, NEW f \in FileIds, NEW g0 \in FileIds,
           NEW m0 \in held[g0], FunctionCallReply(f, m0, FALSE, {})
    PROVE  WaitInv'
<1> SUFFICES ASSUME NEW g \in FileIds, NEW c \in awaiting'[g]
             PROVE  Waits(g, c)'
  BY DEF WaitInv
<1> PICK consumed : consumed = Consumable(replyTokens, m0.token, f)
  OBVIOUS
<1>1. /\ UNCHANGED <<services, origin, open, awaiting>>
      /\ held' = [held EXCEPT ![f] = held[f] \ {m0}]
      /\ m0.type = "FunctionCallRequest"
      /\ \/ consumed = {} /\ UNCHANGED <<replyTokens, inboxes>>
         \/ \E p \in consumed :
               /\ replyTokens' = Discard(replyTokens, consumed)
               /\ inboxes' = Send(inboxes, p.client, CallReplyOf(p), {})
  BY DEF FunctionCallReply, bookkeeping
<1>2. Waits(g, c)
  BY <1>1 DEF WaitInv
<1>3. \A p : p \in consumed <=> p \in replyTokens.pending /\ p.token = m0.token /\ p.service = f
  BY DEF Consumable
<1>4. \A p, q \in consumed : p = q
  <2>1. m0 \in Carried(g0)
    BY DEF Carried
  <2>2. \A p \in consumed : CallOf(p) = CallOf(m0)
    BY <1>1, <1>3, <2>1, MatchInvSuffices DEF TokensMatchRequests, CallOf
  <2>3. QED
    BY <1>3, <2>2 DEF LifeInv, GivenOnce
<1>5. \A p \in replyTokens.pending :
         /\ p \in PendingReply /\ p.service \in FileIds /\ p.client \in FileIds
         /\ CallReplyOf(p) \in Message
  BY MessageTypes DEF TypeInv, TypeOK, CallTypes, PendingReply
<1>6. BoxesStay /\ \A h \in FileIds : \A m : HasIn(h, m) => HasIn(h, m)'
  <2>1. CASE inboxes' = inboxes
    BY <2>1 DEF BoxesStay, HasIn, MessagesOf
  <2>2. ASSUME NEW p \in consumed, inboxes' = Send(inboxes, p.client, CallReplyOf(p), {})
        PROVE  BoxesStay /\ \A h \in FileIds : \A m : HasIn(h, m) => HasIn(h, m)'
    <3>1. p.client \in FileIds /\ CallReplyOf(p) \in Message
      BY <1>3, <1>5
    <3>2. BoxesStay
      BY <2>2, <3>1, SentBoxesStay
    <3>3. inboxes \in [FileIds -> MaybeInbox(Message)]
      BY InboxesAreTyped
    <3>4. \A h \in FileIds : Extended(Messages(inboxes'[h]), Messages(inboxes[h]),
                                IF h = p.client THEN {CallReplyOf(p)} ELSE {})
      BY <2>2, <3>1, <3>3, SendExtends
    <3>5. QED
      BY <3>2, <3>4, ExtendedKeeps
  <2>3. QED
    BY <1>1, <2>1, <2>2
<1>7. QueueStays(c.service)
  BY <1>1 DEF QueueStays, QueueOf
<1>8. ASSUME WithServer(g, c)
      PROVE  WithServer(g, c)' \/ IsTold(g, c)'
  <2>1. PICK p \in replyTokens.pending : \E m :
           /\ CallOf(p) = Mine(g, c)
           /\ HasCall(p.service, m) /\ m.token = p.token /\ m.service = c.service
    BY <1>8 DEF WithServer
  <2>2. PICK m :
           /\ CallOf(p) = Mine(g, c)
           /\ HasCall(p.service, m) /\ m.token = p.token /\ m.service = c.service
    BY <2>1
  <2>3. CASE p \in consumed
    <3>1. inboxes' = Send(inboxes, p.client, CallReplyOf(p), {})
      BY <1>1, <1>4, <2>3
    <3>2. /\ p.client = g /\ CallOf(CallReplyOf(p)) = Mine(g, c)
          /\ CallReplyOf(p).type = "FunctionCallReply"
      BY <2>2 DEF CallOf, CallReplyOf, Mine
    <3>3. CallReplyOf(p) \in Message
      BY <1>5
    <3>4. MessagesOf(g)' = Append(MessagesOf(g), CallReplyOf(p))
      BY <3>1, <3>2, <3>3, SentMessages
    <3>5. HasIn(g, CallReplyOf(p))'
      <4>1. MessagesOf(g) \in Seq(Message) /\ Len(MessagesOf(g)) \in Nat
        BY InboxesAreTyped
      <4>2. /\ Len(MessagesOf(g)) + 1 \in DOMAIN MessagesOf(g)'
            /\ MessagesOf(g)'[Len(MessagesOf(g)) + 1] = CallReplyOf(p)
        BY <3>3, <3>4, <4>1
      <4>3. \E i \in DOMAIN MessagesOf(g)' : CallReplyOf(p) = MessagesOf(g)'[i]
        BY <4>2
      <4>4. QED
        BY <4>3 DEF HasIn, CallReplyOf
    <3>6. Tells(CallReplyOf(p), g, c)
      BY <3>2 DEF Tells
    <3>7. PICK r : r = CallReplyOf(p)
      OBVIOUS
    <3>8. HasIn(g, r)'
      BY <3>5, <3>7 DEF HasIn, CallReplyOf
    <3>9. QED
      BY <1>1, <3>6, <3>7, <3>8, ToldWaits
  <2>4. CASE p \notin consumed
    <3>1. p \in replyTokens'.pending
      BY <1>1, <2>4 DEF Discard, TypeInv, TypeOK, CallTypes
    <3>2. HasCall(p.service, m)'
      <4>1. p.service \in FileIds
        BY <1>5
      <4>2. CASE HasIn(p.service, m)
        BY <1>6, <2>2, <4>1, <4>2 DEF HasCall
      <4>3. CASE m \in held[p.service]
        <5>1. p.service = f => m # m0
          BY <1>3, <2>2, <2>4
        <5>2. m \in held'[p.service]
          BY <1>1, <4>1, <4>3, <5>1 DEF TypeInv, TypeOK, ProcessTypes
        <5>3. QED
          BY <2>2, <5>2 DEF HasCall
      <4>4. QED
        BY <2>2, <4>2, <4>3 DEF HasCall
    <3>3. QED
      BY <1>1, <2>2, <3>1, <3>2, WithServerWaits
  <2>5. QED
    BY <2>3, <2>4
<1>9. InQueue(g, c) => InQueue(g, c)'
  BY <1>1, <1>7, QueueWaits
<1>10. IsTold(g, c) => IsTold(g, c)'
  BY <1>1, <1>6, ToldWaits DEF IsTold
<1>11. QED
  BY <1>1, <1>2, <1>6, <1>8, <1>9, <1>10 DEF Waits, BoxesStay

(* A process that fetches learns what it was told, and holds the requests  *)
(* it was given.                                                           *)
LEMMA PopMessageWait ==
    ASSUME FdsMayRunOut = FALSE, TypeInv, TypeInv', WaitInv, NEW f \in FileIds, PopMessage(f),
           UNCHANGED <<origin, lastCall>>, open' = open
    PROVE  WaitInv'
<1> SUFFICES ASSUME NEW g \in FileIds, NEW c \in awaiting'[g]
             PROVE  Waits(g, c)'
  BY DEF WaitInv
<1> PICK head : head = Head(MessagesOf(f))
  OBVIOUS
<1>1. /\ HasMessage(inboxes[f]) /\ inboxes' = [inboxes EXCEPT ![f] = Pop(inboxes[f])]
      /\ Receive(f, head) /\ UNCHANGED <<services, replyTokens, origin, open>>
  BY PoppedMessages DEF PopMessage, LoseResult
<1>2. /\ \A h \in FileIds : h # f => MessagesOf(h)' = MessagesOf(h)
      /\ DOMAIN MessagesOf(f)' = 1 .. Len(MessagesOf(f)) - 1
      /\ \A i \in 1 .. Len(MessagesOf(f)) - 1 : MessagesOf(f)'[i] = MessagesOf(f)[i + 1]
      /\ MessagesOf(f) # <<>>
  BY PoppedMessages
<1>3. /\ awaiting \in [FileIds -> SUBSET [call : CallIds, service : ServiceNames, inboxed : BOOLEAN]]
      /\ held \in [FileIds -> SUBSET (CallRequest \union SubscribeRequest)]
  BY DEF TypeInv, TypeOK, ProcessTypes
<1>4. /\ c \in awaiting[g]
      /\ g = f /\ head.type = "FunctionCallReply" => c.call # head.call
      /\ g = f /\ head.type = "ServiceClosed" => c.service # head.service
  BY <1>1, <1>3 DEF Receive
<1>5. /\ \A h \in FileIds : held[h] \subseteq held'[h]
      /\ IsCall(head) => head \in held'[f]
  BY <1>1, <1>3 DEF Receive, IsCall
<1>6. \A m : HasIn(f, m) => m = head \/ HasIn(f, m)'
  <2>1. MessagesOf(f) \in Seq(Message) /\ Len(MessagesOf(f)) \in Nat
    BY InboxesAreTyped
  <2>2. DOMAIN MessagesOf(f) = 1 .. Len(MessagesOf(f)) /\ head = MessagesOf(f)[1]
    BY <1>2, <2>1, LenProperties
  <2>3. ASSUME NEW m, NEW i \in DOMAIN MessagesOf(f), m = MessagesOf(f)[i], i # 1
        PROVE  HasIn(f, m)'
    <3>1. PICK j : j = i - 1
      OBVIOUS
    <3>2. j \in 1 .. Len(MessagesOf(f)) - 1 /\ j + 1 = i
      BY <2>1, <2>2, <2>3, <3>1
    <3>3. j \in DOMAIN MessagesOf(f)' /\ m = MessagesOf(f)'[j]
      BY <1>2, <2>3, <3>2
    <3>4. QED
      BY <3>3 DEF HasIn
  <2>4. ASSUME NEW m, HasIn(f, m), m # head
        PROVE  HasIn(f, m)'
    BY <2>2, <2>3, <2>4 DEF HasIn
  <2>5. QED
    BY <2>4
<1>7. \A h \in FileIds : h # f => \A m : HasIn(h, m) => HasIn(h, m)'
  BY <1>2 DEF HasIn
<1>8. \A h \in FileIds : \A m : HasCall(h, m) => HasCall(h, m)'
  BY <1>5, <1>6, <1>7 DEF HasCall
<1>9. inboxes[g] # Nil => inboxes'[g] # Nil
  <2>1. inboxes \in [FileIds -> MaybeInbox(Message)]
    BY InboxesAreTyped
  <2>2. Pop(inboxes[f]) # Nil
    BY <1>1, <2>1, BoxIsNotNil
  <2>3. QED
    BY <1>1, <2>1, <2>2
<1>10. Waits(g, c)
  BY <1>4 DEF WaitInv
<1>11. InQueue(g, c) => InQueue(g, c)'
  <2>1. QueueStays(c.service)
    BY <1>1 DEF QueueStays, QueueOf
  <2>2. QED
    BY <1>1, <2>1, QueueWaits
<1>12. WithServer(g, c) => WithServer(g, c)'
  <2> SUFFICES ASSUME WithServer(g, c) PROVE WithServer(g, c)'
    OBVIOUS
  <2>1. PICK p \in replyTokens.pending : \E m :
           /\ CallOf(p) = Mine(g, c)
           /\ HasCall(p.service, m) /\ m.token = p.token /\ m.service = c.service
    BY DEF WithServer
  <2>2. PICK m :
           /\ CallOf(p) = Mine(g, c)
           /\ HasCall(p.service, m) /\ m.token = p.token /\ m.service = c.service
    BY <2>1
  <2>3. p \in replyTokens'.pending /\ HasCall(p.service, m)'
    BY <1>1, <1>8, <2>2 DEF TypeInv, TypeOK, CallTypes, PendingReply
  <2>4. QED
    BY <1>1, <2>2, <2>3, WithServerWaits
<1>13. IsTold(g, c) => IsTold(g, c)'
  <2> SUFFICES ASSUME NEW m, HasIn(g, m), Tells(m, g, c) PROVE IsTold(g, c)'
    BY DEF IsTold
  <2>1. g = f => m # head
    BY <1>4 DEF Tells, CallOf, Mine
  <2>2. HasIn(g, m)'
    BY <1>6, <1>7, <2>1
  <2>3. QED
    BY <1>1, <2>2, ToldWaits
<1>14. QED
  BY <1>1, <1>9, <1>10, <1>11, <1>12, <1>13 DEF Waits

(* A flush that loses nothing. *)
LEMMA FlushDelivers ==
    ASSUME FdsMayRunOut = FALSE, TypeInv, TypeInv', NEW f \in FileIds, NEW s \in ServicesOf(f),
           FlushRequests(f, s, {}), NEW q, q = QueueOf(s)
    PROVE  /\ awaiting' = awaiting /\ BoxesStay
           /\ \A p \in replyTokens.pending : p \in replyTokens'.pending
           /\ \A g \in FileIds : \A m : HasIn(g, m) => HasIn(g, m)'
           /\ \A g \in FileIds : held[g] \subseteq held'[g]
           /\ \E ts : \A i \in 1 .. Len(q) :
                 /\ FlushEntry(f, q, ts, i) \in replyTokens'.pending
                 /\ HasCall(f, FlushRequest(s, q, ts, i))'
<1>1. s \in ServiceNames /\ services[s] \in BoundService /\ q = services[s].queue
  BY DEF TypeInv, TypeOK, CallTypes, ServicesOf, BoundService, QueueOf
<1>2. q \in Seq(QueuedRequest) /\ Len(q) \in Nat /\ Len(q) > 0
  BY <1>1, EmptySeq, LenProperties DEF FlushRequests, BoundService
<1>3. \A i \in 1 .. Len(q) : q[i] \in QueuedRequest
  BY <1>2, ElementOfSeq
<1>4. PICK ts \in Allocate(replyTokens, Len(q)) :
        /\ replyTokens' = Create(replyTokens, ts, {FlushEntry(f, q, ts, i) : i \in 1 .. Len(q)})
        /\ inboxes' = IF Len(q) = 1 THEN inboxes
                      ELSE [inboxes EXCEPT ![f] = QueueAll(inboxes[f], FlushedRest(s, q, ts))]
        /\ awaiting' = awaiting
        /\ held' = [held EXCEPT ![f] = held[f] \union {FlushRequest(s, q, ts, 1)}]
  <2> DEFINE queue == services[s].queue
  <2>1. PICK ts \in Allocate(replyTokens, Len(queue)) :
          /\ replyTokens' = Create(replyTokens, ts,
                               {FlushEntry(f, queue, ts, i) : i \in 1 .. Len(queue)})
          /\ IF Len(queue) > 1 /\ f \in {} THEN UNCHANGED <<inboxes, held, awaiting, seen>>
             ELSE /\ inboxes' = IF Len(queue) = 1 THEN inboxes
                                ELSE [inboxes EXCEPT ![f] =
                                         QueueAll(inboxes[f], FlushedRest(s, queue, ts))]
                  /\ Receive(f, FlushRequest(s, queue, ts, 1)) \/ LoseResult
    BY DEF FlushRequests, FlushEntry, FlushRequest, FlushedRest
  <2>2. /\ awaiting' = awaiting
        /\ held' = [held EXCEPT ![f] = held[f] \union {FlushRequest(s, queue, ts, 1)}]
    <3>1. Receive(f, FlushRequest(s, queue, ts, 1))
      BY <2>1 DEF LoseResult
    <3>2. QED
      BY <3>1 DEF Receive, FlushRequest
  <2>3. inboxes' = IF Len(queue) = 1 THEN inboxes
                   ELSE [inboxes EXCEPT ![f] = QueueAll(inboxes[f], FlushedRest(s, queue, ts))]
    BY <2>1
  <2>4. queue = q
    BY <1>1
  <2> HIDE DEF queue
  <2>5. QED
    BY <2>1, <2>2, <2>3, <2>4
<1>5. FreshTokens(replyTokens, Len(q), ts)
  BY <1>2, AllocateGivesFreshTokens, Zenon
<1>6. \A i \in 1 .. Len(q) : FlushRequest(s, q, ts, i) \in CallRequest
  BY <1>1, <1>3, <1>5 DEF FreshTokens, FlushRequest, QueuedRequest, CallRequest
<1>7. FlushedRest(s, q, ts) \in Seq(Message)
  <2>1. \A i \in 1 .. Len(q) - 1 : i + 1 \in 1 .. Len(q)
    BY <1>2
  <2>2. \A i \in 1 .. Len(q) - 1 : FlushRequest(s, q, ts, i + 1) \in Message
    BY <1>6, <2>1 DEF Message
  <2>3. FlushedRest(s, q, ts) \in [1 .. Len(q) - 1 -> Message]
    BY <2>2 DEF FlushedRest
  <2>4. Len(q) - 1 \in Nat
    BY <1>2
  <2>5. QED
    BY <2>3, <2>4, SeqDef
<1>8. /\ replyTokens.pending \subseteq replyTokens'.pending
      /\ \A i \in 1 .. Len(q) : FlushEntry(f, q, ts, i) \in replyTokens'.pending
  BY <1>4 DEF Create
<1>9. /\ awaiting' = awaiting
      /\ \A g \in FileIds : held[g] \subseteq held'[g]
      /\ FlushRequest(s, q, ts, 1) \in held'[f]
  <2>1. held \in [FileIds -> SUBSET (CallRequest \union SubscribeRequest)]
    BY DEF TypeInv, TypeOK, ProcessTypes
  <2>2. QED
    BY <1>4, <2>1
<1>10. /\ inboxes \in [FileIds -> MaybeInbox(Message)]
       /\ \A g \in FileIds : MessagesOf(g) = Messages(inboxes[g])
  BY InboxesAreTyped
<1>11. BoxesStay
  <2>1. QueueAll(inboxes[f], FlushedRest(s, q, ts)) # Nil
    BY <1>7, <1>10, BoxIsNotNil
  <2>2. QED
    BY <1>4, <1>10, <2>1 DEF BoxesStay
<1>12. \A g \in FileIds : \A m : HasIn(g, m) => HasIn(g, m)'
  <2>1. \A g \in FileIds : Extended(Messages(inboxes'[g]), Messages(inboxes[g]), CallRequest)
    BY FlushExtends
  <2>2. QED
    BY <2>1, ExtendedKeeps
<1>13. Len(q) # 1 => MessagesOf(f)' = FlushedRest(s, q, ts)
  <2> SUFFICES ASSUME Len(q) # 1 PROVE MessagesOf(f)' = FlushedRest(s, q, ts)
    OBVIOUS
  <2>1. Messages(inboxes[f]) = <<>>
    BY DEF FlushRequests, HasMessage, Messages
  <2>2. inboxes'[f] = QueueAll(inboxes[f], FlushedRest(s, q, ts))
    BY <1>4, <1>10
  <2>3. Messages(QueueAll(inboxes[f], FlushedRest(s, q, ts))) =
           Messages(inboxes[f]) \o FlushedRest(s, q, ts)
    BY <1>7, <1>10, QueueAllMessages
  <2>4. <<>> \o FlushedRest(s, q, ts) = FlushedRest(s, q, ts)
    BY <1>7
  <2>5. QED
    BY <2>1, <2>2, <2>3, <2>4, PrimedMessages
<1>14. ASSUME NEW i \in 1 .. Len(q)
       PROVE  HasCall(f, FlushRequest(s, q, ts, i))'
  <2> PICK m : m = FlushRequest(s, q, ts, i)
    OBVIOUS
  <2>1. IsCall(m)
    BY DEF FlushRequest, IsCall
  <2>2. CASE i = 1
    BY <1>9, <2>1, <2>2 DEF HasCall, FlushRequest, IsCall
  <2>3. CASE i # 1
    <3> PICK j : j = i - 1
      OBVIOUS
    <3>1. Len(q) # 1 /\ j \in 1 .. Len(q) - 1 /\ j + 1 = i
      <4> PICK n : n = Len(q)
        OBVIOUS
      <4>1. n \in Nat /\ i \in 1 .. n
        BY <1>2
      <4>2. n # 1 /\ j \in 1 .. n - 1 /\ j + 1 = i
        BY <2>3, <4>1
      <4>3. QED
        BY <4>2
    <3>2. j \in DOMAIN FlushedRest(s, q, ts) /\ m = FlushedRest(s, q, ts)[j]
      BY <3>1 DEF FlushedRest
    <3>3. j \in DOMAIN MessagesOf(f)' /\ m = MessagesOf(f)'[j]
      BY <1>13, <3>1, <3>2
    <3>4. HasIn(f, m)'
      BY <3>3 DEF HasIn
    <3>5. HasCall(f, m)'
      BY <2>1, <3>4 DEF HasCall
    <3>6. QED
      BY <3>5 DEF HasCall, HasIn, IsCall, FlushRequest
  <2>4. QED
    BY <2>2, <2>3
<1>15. QED
  BY <1>8, <1>9, <1>11, <1>12, <1>14

LEMMA FlushRequestsWait ==
    ASSUME FdsMayRunOut = FALSE, TypeInv, TypeInv', WaitInv, NEW f \in FileIds,
           NEW s \in ServicesOf(f), FlushRequests(f, s, {}),
           UNCHANGED <<origin, lastCall>>, open' = open
    PROVE  WaitInv'
<1> SUFFICES ASSUME NEW g \in FileIds, NEW c \in awaiting'[g]
             PROVE  Waits(g, c)'
  BY DEF WaitInv
<1> PICK q : q = QueueOf(s)
  OBVIOUS
<1>1. /\ awaiting' = awaiting /\ BoxesStay
      /\ \A p \in replyTokens.pending : p \in replyTokens'.pending
      /\ \A h \in FileIds : \A m : HasIn(h, m) => HasIn(h, m)'
      /\ \A h \in FileIds : held[h] \subseteq held'[h]
  BY FlushDelivers
<1>2. \E ts : \A i \in 1 .. Len(q) :
         /\ FlushEntry(f, q, ts, i) \in replyTokens'.pending
         /\ HasCall(f, FlushRequest(s, q, ts, i))'
  BY FlushDelivers
<1>3. /\ q \in Seq(QueuedRequest) /\ DOMAIN q = 1 .. Len(q)
      /\ \A t \in ServiceNames : t # s => services'[t] = services[t]
  BY FlushEffect, LenProperties
<1>4. c \in awaiting[g] /\ c.service \in ServiceNames /\ Waits(g, c)
  BY <1>1 DEF WaitInv, TypeInv, TypeOK, ProcessTypes
<1>5. \A h \in FileIds : \A m : HasCall(h, m) => HasCall(h, m)'
  BY <1>1 DEF HasCall
<1>6. \A p \in replyTokens.pending : p.service \in FileIds
  BY DEF TypeInv, TypeOK, CallTypes, PendingReply
<1>7. /\ \A p \in replyTokens.pending : \A m : HasCall(p.service, m) => HasCall(p.service, m)'
      /\ g \in open' /\ origin'[g] = origin[g] /\ (inboxes[g] # Nil => inboxes'[g] # Nil)
  BY <1>1, <1>4, <1>5, <1>6 DEF BoxesStay, Waits
<1>8. CASE c.service # s
  <2>1. QueueStays(c.service)
    BY <1>3, <1>4, <1>8 DEF QueueStays, QueueOf
  <2>2. QED
    BY <1>1, <1>4, <1>7, <2>1, StillWaits
<1>9. CASE c.service = s /\ InQueue(g, c)
  <2>1. PICK i \in 1 .. Len(q) : CallOf(q[i]) = Mine(g, c)
    BY <1>3, <1>9 DEF InQueue
  <2>2. PICK ts : /\ FlushEntry(f, q, ts, i) \in replyTokens'.pending
                  /\ HasCall(f, FlushRequest(s, q, ts, i))'
    BY <1>2
  <2> PICK p, m : p = FlushEntry(f, q, ts, i) /\ m = FlushRequest(s, q, ts, i)
    OBVIOUS
  <2>3. /\ CallOf(p) = Mine(g, c) /\ p.service = f
        /\ m.token = p.token /\ m.service = c.service
    BY <1>9, <2>1 DEF FlushEntry, FlushRequest, CallOf
  <2>4. p \in replyTokens'.pending
    BY <2>2
  <2>5. HasCall(p.service, m)'
    <3>1. HasCall(f, m)'
      BY <2>2 DEF HasCall, HasIn, IsCall, FlushRequest
    <3>2. QED
      BY <2>3, <3>1
  <2>6. WithServer(g, c)'
    BY <2>3, <2>4, <2>5, WithServerWaits
  <2>7. QED
    BY <1>4, <1>7, <2>6 DEF Waits
<1>10. CASE ~InQueue(g, c)
  <2>1. WithServer(g, c) => WithServer(g, c)'
    <3> SUFFICES ASSUME WithServer(g, c) PROVE WithServer(g, c)'
      OBVIOUS
    <3>1. PICK p \in replyTokens.pending : \E m :
             /\ CallOf(p) = Mine(g, c)
             /\ HasCall(p.service, m) /\ m.token = p.token /\ m.service = c.service
      BY DEF WithServer
    <3>2. PICK m :
             /\ CallOf(p) = Mine(g, c)
             /\ HasCall(p.service, m) /\ m.token = p.token /\ m.service = c.service
      BY <3>1
    <3>3. p \in replyTokens'.pending /\ HasCall(p.service, m)'
      BY <1>1, <1>7, <3>2
    <3>4. QED
      BY <3>2, <3>3, WithServerWaits
  <2>2. IsTold(g, c) => IsTold(g, c)'
    BY <1>1, ToldWaits DEF IsTold
  <2>3. QED
    BY <1>4, <1>7, <1>10, <2>1, <2>2 DEF Waits
<1>11. QED
  BY <1>8, <1>9, <1>10

(* Whoever has an inbox is told that the services of a closed file closed. *)
LEMMA ClosingTells ==
    ASSUME TypeInv, NEW f \in FileIds, Close(f, {}), NEW g \in FileIds \ {f}, inboxes[g] # Nil,
           NEW s \in ServicesOf(f), NEW m, m = [type |-> "ServiceClosed", service |-> s]
    PROVE  HasIn(g, m)'
<1>1. PICK rank, earlier :
         \A n \in PendingNotices(f) \union ExitNotices(f, rank)
                     \union ServiceClosedNotices(f, rank, earlier) :
             n.to \in FileIds \ {f} => n.message \in NewMessages(n.to)
  BY CloseDelivers
<1> DEFINE n == Notice(g, 3 * rank[s] + 2, 0, m)
<1>2. n \in ServiceClosedNotices(f, rank, earlier)
  <2> DEFINE y == <<g, s>>
  <2>1. y \in (FileIds \ {f}) \X ServicesOf(f) /\ inboxes[y[1]] # Nil
    OBVIOUS
  <2>2. n = Notice(y[1], 3 * rank[y[2]] + 2, 0, [type |-> "ServiceClosed", service |-> y[2]])
    OBVIOUS
  <2> HIDE DEF y, n
  <2>3. QED
    BY <2>1, <2>2 DEF ServiceClosedNotices
<1>3. n.to = g /\ n.message = m
  BY DEF Notice
<1> HIDE DEF n
<1>4. m \in NewMessages(g)
  BY <1>1, <1>2, <1>3
<1>5. PICK i \in Len(MessagesOf(g)) + 1 .. Len(inboxes'[g].messages) :
         inboxes'[g] # Nil /\ m = inboxes'[g].messages[i]
  BY <1>4 DEF NewMessages
<1>6. inboxes' \in [FileIds -> MaybeInbox(Message)] => HasIn(g, m)'
  <2> SUFFICES ASSUME inboxes' \in [FileIds -> MaybeInbox(Message)] PROVE HasIn(g, m)'
    OBVIOUS
  <2>1. MessagesOf(g)' = inboxes'[g].messages
    BY <1>5 DEF MessagesOf
  <2>2. MessagesOf(g)' \in Seq(Message)
    BY <1>5, <2>1 DEF MaybeInbox, Inbox
  <2>3. Len(MessagesOf(g)) \in Nat
    BY InboxesAreTyped
  <2>4. Len(MessagesOf(g)') \in Nat /\ DOMAIN MessagesOf(g)' = 1 .. Len(MessagesOf(g)')
    BY <2>2, LenProperties
  <2>5. i \in DOMAIN MessagesOf(g)'
    BY <2>1, <2>3, <2>4
  <2>6. QED
    BY <1>5, <2>1, <2>5 DEF HasIn
<1>7. inboxes' \in [FileIds -> MaybeInbox(Message)]
  <2>1. TypeInv'
    BY CloseTypes
  <2>2. QED
    BY <2>1 DEF TypeInv, TypeOK, CallTypes, MaybeInbox
<1>8. QED
  BY <1>6, <1>7

LEMMA CloseWait ==
    ASSUME TypeInv, TypeInv', OrderInv, WaitInv, NEW f \in FileIds, Close(f, {})
    PROVE  WaitInv'
<1> SUFFICES ASSUME NEW g \in FileIds, NEW c \in awaiting'[g]
             PROVE  Waits(g, c)'
  BY DEF WaitInv
<1>1. /\ services' = [s \in ServiceNames |-> IF s \in ServicesOf(f) THEN Nil ELSE services[s]]
      /\ open' = open \ {f} /\ origin' = origin
      /\ replyTokens'.pending = replyTokens.pending \ EntriesOf(replyTokens, f)
      /\ held' = [held EXCEPT ![f] = {}]
      /\ awaiting' = [awaiting EXCEPT ![f] = {}]
  BY DEF Close, Discard, TypeInv, TypeOK, CallTypes
<1>2. /\ g # f /\ c \in awaiting[g] /\ c.service \in ServiceNames
      /\ \A h \in FileIds : h # f => held'[h] = held[h]
  BY <1>1 DEF TypeInv, TypeOK, ProcessTypes
<1>3. Waits(g, c) /\ g \in open'
  BY <1>1, <1>2 DEF WaitInv, Waits
<1>4. inboxes[g] # Nil => inboxes'[g] # Nil
  BY <1>2, CloseDelivers
<1>5. \A h \in FileIds : h # f => \A m : HasIn(h, m) => HasIn(h, m)'
  <2>1. \A h \in FileIds : h # f => Extended(Messages(inboxes'[h]), Messages(inboxes[h]), Quiet)
    BY CloseQuiet
  <2>2. QED
    BY <2>1, ExtendedKeeps
<1>6. IsTold(g, c) => IsTold(g, c)'
  BY <1>1, <1>2, <1>5, ToldWaits DEF IsTold
<1>7. c.service \in ServicesOf(f) /\ inboxes[g] # Nil => IsTold(g, c)'
  <2> SUFFICES ASSUME c.service \in ServicesOf(f), inboxes[g] # Nil PROVE IsTold(g, c)'
    OBVIOUS
  <2> PICK m : m = [type |-> "ServiceClosed", service |-> c.service]
    OBVIOUS
  <2>1. Tells(m, g, c)
    BY DEF Tells
  <2>2. HasIn(g, m)'
    BY <1>2, ClosingTells
  <2>3. QED
    BY <1>1, <2>1, <2>2, ToldWaits
<1>8. c.service \notin ServicesOf(f) /\ InQueue(g, c) => InQueue(g, c)'
  <2> SUFFICES ASSUME c.service \notin ServicesOf(f), InQueue(g, c) PROVE InQueue(g, c)'
    OBVIOUS
  <2>1. QueueStays(c.service)
    BY <1>1, <1>2 DEF QueueStays, QueueOf
  <2>2. QED
    BY <1>1, <2>1, QueueWaits
<1>9. c.service \notin ServicesOf(f) /\ WithServer(g, c) => WithServer(g, c)'
  <2> SUFFICES ASSUME c.service \notin ServicesOf(f), WithServer(g, c) PROVE WithServer(g, c)'
    OBVIOUS
  <2>1. PICK p \in replyTokens.pending : \E m :
           /\ CallOf(p) = Mine(g, c)
           /\ HasCall(p.service, m) /\ m.token = p.token /\ m.service = c.service
    BY DEF WithServer
  <2>2. PICK m :
           /\ CallOf(p) = Mine(g, c)
           /\ HasCall(p.service, m) /\ m.token = p.token /\ m.service = c.service
    BY <2>1
  <2>3. p.service \in FileIds /\ p.client = g
    BY <2>2 DEF TypeInv, TypeOK, CallTypes, PendingReply, CallOf, Mine
  <2>4. Provides(p.service, m.service)
    <3>1. CASE m \in held[p.service]
      BY <2>2, <2>3, <3>1 DEF HasCall, OrderInv, CallsAreProvided
    <3>2. CASE HasIn(p.service, m)
      <4>1. PICK i \in DOMAIN MessagesOf(p.service) : m = MessagesOf(p.service)[i]
        BY <3>2 DEF HasIn
      <4>2. i \in Nat
        <5>1. MessagesOf(p.service) \in Seq(Message) /\ Len(MessagesOf(p.service)) \in Nat
          BY <2>3, InboxesAreTyped
        <5>2. DOMAIN MessagesOf(p.service) = 1 .. Len(MessagesOf(p.service))
          BY <5>1, LenProperties
        <5>3. QED
          BY <4>1, <5>1, <5>2
      <4>3. CallAt(p.service, i)
        BY <2>2, <4>1 DEF HasCall, CallAt
      <4>4. QED
        BY <2>3, <4>1, <4>2, <4>3 DEF OrderInv, CallsAreProvided
    <3>3. QED
      BY <2>2, <3>1, <3>2 DEF HasCall
  <2>5. p.service # f
    BY <1>2, <2>2, <2>4 DEF Provides, ServicesOf
  <2>6. p \in replyTokens'.pending
    BY <1>1, <1>2, <2>3, <2>5 DEF EntriesOf
  <2>7. HasCall(p.service, m)'
    BY <1>2, <1>5, <2>2, <2>3, <2>5 DEF HasCall
  <2>8. QED
    BY <1>1, <2>2, <2>6, <2>7, WithServerWaits
<1>10. QED
  BY <1>3, <1>4, <1>6, <1>7, <1>8, <1>9 DEF Waits

LEMMA NextWait ==
    ASSUME AllocMayFail = FALSE, FdsMayRunOut = FALSE, BadReplyFds = FALSE
    PROVE  TypeInv /\ TypeInv' /\ MatchInv /\ LifeInv /\ OrderInv /\ WaitInv /\ [Next]_vars
           => WaitInv'
<1> SUFFICES ASSUME TypeInv, TypeInv', MatchInv, LifeInv, OrderInv, WaitInv, [Next]_vars
             PROVE  WaitInv'
  OBVIOUS
<1>1. Shortages = {{}}
  BY DEF Shortages
<1>2. \/ CallsAlone
      \/ \E f \in FileIds :
            \/ Open(f)
            \/ \E s \in ServiceNames : FunctionCall(f, s)
            \/ \E g \in FileIds : \E m \in held[g] : FunctionCallReply(f, m, FALSE, {})
            \/ PopMessage(f) /\ UNCHANGED <<origin, lastCall>> /\ open' = open
            \/ \E s \in ServicesOf(f) :
                  FlushRequests(f, s, {}) /\ UNCHANGED <<origin, lastCall>> /\ open' = open
            \/ Close(f, {})
  BY <1>1, CallSteps
<1>3. QED
  BY <1>2, CallsAloneWait, OpenWait, FunctionCallWait, FunctionCallReplyWait, PopMessageWait,
     FlushRequestsWait, CloseWait

(* A caller that had fetched before it called is never left waiting for a  *)
(* call that nobody can answer any more, whoever closes and in whatever    *)
(* order requests, replies and notices are fetched: as long as it waits,   *)
(* its call is in the queue of the service, or a server has it with its    *)
(* token, or what ends the wait is in its inbox.  That is so when nothing  *)
(* the kernel takes out of its tables can be lost: inboxes can be          *)
(* allocated, descriptors installed, and those of replies are valid.       *)
THEOREM NoCallerIsStranded ==
    ASSUME AllocMayFail = FALSE, FdsMayRunOut = FALSE, BadReplyFds = FALSE
    PROVE  Spec => []NoStrandedCaller
<1>1. Init => WaitInv
  BY InitWait
<1>2. TypeInv /\ TypeInv' /\ MatchInv /\ LifeInv /\ OrderInv /\ WaitInv /\ [Next]_vars => WaitInv'
  BY NextWait
<1>3. TypeInv /\ WaitInv => NoStrandedCaller
  BY WaitInvSuffices
<1>4. QED
  BY <1>1, <1>2, <1>3, TypeInvariant, MatchInvariant, LifeInvariant, OrderInvariant, PTL DEF Spec
===============================================================================
