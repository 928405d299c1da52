--------------------------- MODULE MidlServerProofs ---------------------------
(***************************************************************************)
(* The generated server for every set of services, every form a request    *)
(* may have and every bound: types, no request is forgotten, and the       *)
(* stores a client was told of are known.                                  *)
(***************************************************************************)
EXTENDS MidlServer, SequenceTheorems, TLAPS

LEMMA Bounds ==
    /\ MaxRequests \in Nat /\ MaxAnonymous \in Nat
    /\ Nil \notin Message /\ Nil \notin Task
  BY ServerAssumption, NilAssumption

LEMMA MembershipIsBoolean == ASSUME NEW a, NEW S PROVE (a \in S) \in BOOLEAN
  BY SMT

(* What a message of each type is *)
LEMMA MessageFields ==
    ASSUME NEW m \in Message
    PROVE  /\ m.token \in Tokens
           /\ m.type = "call" => m \in CallRequest
           /\ m.type = "anonymous" => m \in AnonymousSubscribe
  BY DEF Message, CallRequest, AnonymousSubscribe, NamedSubscribe

(* The first of a sequence goes, the rest stays. *)
LEMMA TailOfSeq ==
    ASSUME NEW S, NEW s \in Seq(S), s # <<>>
    PROVE  /\ Head(s) \in S /\ Tail(s) \in Seq(S)
           /\ Len(Tail(s)) = Len(s) - 1
           /\ Len(s) \in Nat \ {0}
           /\ Head(s) = s[1]
           /\ \A i \in 1 .. Len(s) - 1 : Tail(s)[i] = s[i + 1]
  BY HeadTailProperties, EmptySeq, LenProperties

-----------------------------------------------------------------------------
(* Types *)

LEMMA InitTypes == Init => ServerTypeOK
<1> SUFFICES ASSUME Init PROVE ServerTypeOK
  OBVIOUS
<1>1. inbox \in Seq(Message)
  BY EmptySeq DEF Init
<1>2. issued \in 0 .. MaxRequests /\ good \subseteq 1 .. issued
  BY Bounds DEF Init
<1>3. QED
  BY <1>1, <1>2 DEF Init, ServerTypeOK

LEMMA DeliverTypes ==
    ASSUME ServerTypeOK, NEW m \in Message, m.token = issued + 1, Deliver(m)
    PROVE  ServerTypeOK'
<1>1. issued' \in 0 .. MaxRequests /\ good' \subseteq 1 .. issued'
  <2>1. issued + 1 \in 1 .. MaxRequests /\ issued' = issued + 1
    BY MessageFields DEF Deliver, Tokens
  <2>2. good' = good \cup {issued + 1}
    BY DEF Deliver
  <2>3. issued \in Nat /\ MaxRequests \in Nat /\ good \subseteq 1 .. issued
    <3>1. MaxRequests \in Nat
      BY Bounds
    <3>2. issued \in 0 .. MaxRequests /\ good \subseteq 1 .. issued
      BY DEF ServerTypeOK
    <3>3. QED
      BY <3>1, <3>2
  <2>4. QED
    BY <2>1, <2>2, <2>3
<1>2. inbox' \in Seq(Message)
  BY AppendProperties DEF Deliver, ServerTypeOK
<1>3. QED
  BY <1>1, <1>2 DEF Deliver, ServerTypeOK, loop, history

LEMMA RequestTypes == ServerTypeOK /\ Request => ServerTypeOK'
<1> SUFFICES ASSUME ServerTypeOK, Request PROVE ServerTypeOK'
  OBVIOUS
<1> DEFINE next == issued + 1
<1>1. next \in Tokens
  BY DEF Request
<1>2. CASE \E s \in Services, form \in Forms :
              Deliver([type |-> "call", token |-> next, service |-> s, form |-> form])
  <2>1. PICK s \in Services, form \in Forms :
              Deliver([type |-> "call", token |-> next, service |-> s, form |-> form])
    BY <1>2
  <2>2. [type |-> "call", token |-> next, service |-> s, form |-> form] \in Message
    BY <1>1 DEF Message, CallRequest
  <2>3. QED
    BY <2>1, <2>2, DeliverTypes
<1>3. CASE \E a \in stores :
              Deliver([type |-> "anonymous", token |-> next, store |-> a,
                       known |-> a \in told])
  <2>1. PICK a \in stores :
              Deliver([type |-> "anonymous", token |-> next, store |-> a,
                       known |-> a \in told])
    BY <1>3
  <2>2. a \in AnonymousIds
    BY DEF ServerTypeOK
  <2>3. [type |-> "anonymous", token |-> next, store |-> a, known |-> a \in told]
            \in Message
    <3>1. \A known \in BOOLEAN :
              [type |-> "anonymous", token |-> next, store |-> a, known |-> known]
                  \in Message
      BY <1>1, <2>2 DEF Message, AnonymousSubscribe
    <3>2. (a \in told) \in BOOLEAN
      BY MembershipIsBoolean, Zenon
    <3>3. QED
      BY <3>1, <3>2, Zenon
  <2>4. QED
    BY <2>1, <2>3, DeliverTypes
<1>4. CASE Deliver([type |-> "named", token |-> next])
  <2>1. [type |-> "named", token |-> next] \in Message
    BY <1>1 DEF Message, NamedSubscribe
  <2>2. QED
    BY <1>4, <2>1, DeliverTypes
<1>5. QED
  BY <1>2, <1>3, <1>4 DEF Request

LEMMA FetchTypes == ServerTypeOK /\ Fetch => ServerTypeOK'
<1> SUFFICES ASSUME ServerTypeOK, Fetch PROVE ServerTypeOK'
  OBVIOUS
<1>1. CASE TakeMessage
  <2>1. inbox' \in Seq(Message) /\ hand' \in Message
    BY <1>1, TailOfSeq DEF TakeMessage, ServerTypeOK
  <2>2. QED
    BY <1>1, <2>1 DEF TakeMessage, Fetch, ServerTypeOK, history
<1>2. CASE FetchError
  BY <1>2 DEF FetchError, AfterServe, Fetch, ServerTypeOK, history
<1>3. QED
  BY <1>1, <1>2 DEF Fetch

(* A turn of the loop gives a request up, spawns a task or refuses. *)
LEMMA DispatchTypes ==
    ASSUME ServerTypeOK, Dispatch, hand # Nil
    PROVE  ServerTypeOK'
<1>1. hand \in Message /\ hand.token \in Tokens
  BY MessageFields DEF ServerTypeOK
<1>2. \A why \in {"not installed", "unknown method", "undecodable", "late verdict",
                 "private store"} :
          \A point \in {"fetching", "ended"} :
              PassOver(point, why) /\ task' = task => ServerTypeOK'
  BY <1>1 DEF PassOver, Dispatch, ServerTypeOK
<1>3. \A job \in {"handle", "judge"}, s \in Services : Spawn(job, s) => ServerTypeOK'
  <2> SUFFICES ASSUME NEW job \in {"handle", "judge"}, NEW s \in Services, Spawn(job, s)
               PROVE  ServerTypeOK'
    OBVIOUS
  <2>1. [job |-> job, service |-> s, making |-> 0] \in Task
    BY DEF Task
  <2>2. task' \in [Tokens -> Task \cup {Nil}]
    BY <1>1, <2>1 DEF Spawn, ServerTypeOK
  <2>3. QED
    BY <2>2 DEF Spawn, Dispatch, ServerTypeOK
<1>4. CASE hand.type = "call" /\ DispatchCall
  <2>1. hand.service \in Services
    BY <1>1, <1>4, MessageFields DEF CallRequest
  <2>2. QED
    BY <1>2, <1>3, <1>4, <2>1 DEF DispatchCall, AfterServe
<1>5. CASE hand.type = "anonymous" /\ DispatchSubscription
  <2>1. CASE \E s \in Makers(hand.store) : Spawn("judge", s)
    BY <1>3, <2>1 DEF Makers
  <2>2. CASE /\ Use(hand.token) /\ refused' = refused \cup {hand}
             /\ at' = "fetching" /\ hand' = Nil
             /\ UNCHANGED <<task, unanswered>>
    <3>1. refused' \subseteq AnonymousSubscribe
      BY <1>1, <1>5, <2>2, MessageFields DEF ServerTypeOK
    <3>2. QED
      BY <2>2, <3>1 DEF Use, Dispatch, ServerTypeOK
  <2>3. CASE PassOver("ended", "late verdict") /\ AfterServe
    BY <1>2, <2>3 DEF AfterServe
  <2>4. QED
    BY <1>5, <2>1, <2>2, <2>3 DEF DispatchSubscription
<1>6. CASE hand.type = "named" /\ PassOver("fetching", "private store") /\ UNCHANGED task
  BY <1>2, <1>6
<1>7. QED
  BY <1>4, <1>5, <1>6 DEF Dispatch

LEMMA SettingUpTypes ==
    ServerTypeOK /\ ((\E s \in Services : Install(s)) \/ Serve \/ Exit) => ServerTypeOK'
<1> SUFFICES ASSUME ServerTypeOK
             PROVE  /\ \A s \in Services : Install(s) => ServerTypeOK'
                    /\ Serve => ServerTypeOK'
                    /\ Exit => ServerTypeOK'
  OBVIOUS
<1>1. ASSUME NEW s \in Services, Install(s) PROVE ServerTypeOK'
  BY <1>1 DEF Install, ServerTypeOK, kernel, loop, history
<1>2. ASSUME Serve PROVE ServerTypeOK'
  BY <1>2 DEF Serve, ServerTypeOK, kernel, history
<1>3. ASSUME Exit PROVE ServerTypeOK'
  <2>1. inbox' \in Seq(Message)
    BY <1>3, EmptySeq DEF Exit
  <2>2. QED
    BY <1>3, <2>1 DEF Exit, ServerTypeOK, history
<1>4. QED
  BY <1>1, <1>2, <1>3

LEMMA HandlingTask ==
    ASSUME ServerTypeOK, NEW t \in Tokens, task[t] # Nil
    PROVE  /\ task[t] \in Task
           /\ task[t].service \in Services
           /\ task[t].making \in AnonymousIds \cup {0}
           /\ task[t].job \in {"handle", "judge"}
  BY DEF ServerTypeOK, Task

LEMMA TaskTypes ==
    ASSUME ServerTypeOK, NEW t \in Tokens,
           Leave(t) \/ CreateStore(t) \/ RecordKind(t) \/ FinishCall(t) \/ Judge(t)
    PROVE  ServerTypeOK'
<1>1. CASE Leave(t)
  BY <1>1 DEF Leave, Use, ServerTypeOK, loop, history
<1>2. CASE CreateStore(t)
  <2>1. PICK a \in AnonymousIds : /\ stores' = stores \cup {a}
                                  /\ task' = [task EXCEPT ![t].making = a]
    BY <1>2 DEF CreateStore
  <2>2. [task[t] EXCEPT !.making = a] \in Task
    BY <1>2, HandlingTask DEF CreateStore, Handling, Task
  <2>3. task' \in [Tokens -> Task \cup {Nil}]
    BY <2>1, <2>2 DEF ServerTypeOK
  <2>4. QED
    BY <1>2, <2>1, <2>3 DEF CreateStore, ServerTypeOK, loop, history
<1>3. CASE RecordKind(t)
  <2>1. [task[t] EXCEPT !.making = 0] \in Task
    BY <1>3, HandlingTask DEF RecordKind, Handling, Task
  <2>2. task' \in [Tokens -> Task \cup {Nil}]
    BY <1>3, <2>1 DEF RecordKind, ServerTypeOK
  <2>3. {task[t].making} \subseteq AnonymousIds /\ task[t].service \in Services
    BY <1>3, HandlingTask DEF RecordKind, Handling
  <2>4. /\ kinds' \in [Services -> SUBSET AnonymousIds]
        /\ made' \in [Tokens -> SUBSET AnonymousIds]
    BY <1>3, <2>3 DEF RecordKind, ServerTypeOK
  <2>5. QED
    BY <1>3, <2>2, <2>4 DEF RecordKind, ServerTypeOK, kernel, loop, history
<1>4. CASE FinishCall(t)
  <2>1. told' \subseteq AnonymousIds
    <3>1. \A result \in Results(t) : result \subseteq AnonymousIds
      BY DEF Results, ServerTypeOK
    <3>2. QED
      BY <1>4, <3>1 DEF FinishCall, ServerTypeOK
  <2>2. /\ good' \subseteq good
        /\ unanswered' \in {unanswered, [unanswered EXCEPT ![t] = "handler failed"]}
    BY <1>4 DEF FinishCall, Use
  <2>3. QED
    BY <1>4, <2>1, <2>2 DEF FinishCall, End, ServerTypeOK, loop
<1>5. CASE Judge(t)
  BY <1>5 DEF Judge, Use, End, ServerTypeOK, loop, history
<1>6. QED
  BY <1>1, <1>2, <1>3, <1>4, <1>5

-----------------------------------------------------------------------------
(* The loop has a message in hand exactly while it dispatches. *)
HandInv == (at = "dispatching") <=> (hand # Nil)

TypeInv == ServerTypeOK /\ HandInv

LEMMA StepHand == TypeInv /\ [Next]_vars => HandInv'
<1> SUFFICES ASSUME TypeInv, [Next]_vars PROVE HandInv'
  OBVIOUS
<1> USE DEF TypeInv, HandInv
<1>1. CASE Request
  BY <1>1 DEF Request, Deliver, loop
<1>2. CASE (\E s \in Services : Install(s)) \/ Serve
  BY <1>2 DEF Install, Serve, loop
<1>3. CASE Fetch
  <2>1. CASE TakeMessage
    <3>1. hand' \in Message
      BY <2>1, TailOfSeq DEF TakeMessage, ServerTypeOK
    <3>2. QED
      BY <2>1, <3>1, Bounds DEF TakeMessage
  <2>2. CASE FetchError
    BY <1>3, <2>2 DEF FetchError, Fetch
  <2>3. QED
    BY <1>3, <2>1, <2>2 DEF Fetch
<1>4. CASE Dispatch
  BY <1>4 DEF Dispatch, DispatchCall, DispatchSubscription, PassOver, Spawn
<1>5. CASE Exit
  BY <1>5 DEF Exit
<1>6. CASE \E t \in Tokens :
              Leave(t) \/ CreateStore(t) \/ RecordKind(t) \/ FinishCall(t) \/ Judge(t)
  BY <1>6 DEF Leave, CreateStore, RecordKind, FinishCall, Judge, loop
<1>7. CASE UNCHANGED vars
  BY <1>7 DEF vars, loop
<1>8. QED
  BY <1>1, <1>2, <1>3, <1>4, <1>5, <1>6, <1>7 DEF Next, ServeStep

LEMMA StepTypes == TypeInv /\ [Next]_vars => TypeInv'
<1> SUFFICES ASSUME TypeInv, [Next]_vars PROVE ServerTypeOK'
  BY StepHand DEF TypeInv
<1>1. ServerTypeOK
  BY DEF TypeInv
<1>2. CASE Request
  BY <1>1, <1>2, RequestTypes
<1>3. CASE (\E s \in Services : Install(s)) \/ Serve \/ Exit
  BY <1>1, <1>3, SettingUpTypes
<1>4. CASE Fetch
  BY <1>1, <1>4, FetchTypes
<1>5. CASE Dispatch
  <2>1. hand # Nil
    BY <1>5 DEF Dispatch, TypeInv, HandInv
  <2>2. QED
    BY <1>1, <1>5, <2>1, DispatchTypes
<1>6. CASE \E t \in Tokens :
              Leave(t) \/ CreateStore(t) \/ RecordKind(t) \/ FinishCall(t) \/ Judge(t)
  BY <1>1, <1>6, TaskTypes
<1>7. CASE UNCHANGED vars
  BY <1>1, <1>7 DEF vars, kernel, loop, history, ServerTypeOK
<1>8. QED
  BY <1>2, <1>3, <1>4, <1>5, <1>6, <1>7 DEF Next, ServeStep

(* Every variable of the server has its type in every reachable state. *)
THEOREM ServerTypesCorrect == Spec => [](ServerTypeOK /\ HandInv)
<1>1. Init => TypeInv
  BY InitTypes DEF Init, TypeInv, HandInv
<1>2. TypeInv /\ [Next]_vars => TypeInv'
  BY StepTypes
<1>3. QED
  BY <1>1, <1>2, PTL DEF Spec, TypeInv

-----------------------------------------------------------------------------
(* NoRequestForgotten is inductive: a request goes from the inbox to the   *)
(* hands of the loop, from there to a task or to one of the causes, and    *)
(* from the task to its answer, never out of sight in between.             *)
AccountedFor(t) ==
    \/ Waiting(t) \/ task[t] # Nil \/ unanswered[t] \in Unheeded
    \/ hand # Nil /\ hand.token = t

LEMMA GoodTokens == ASSUME ServerTypeOK, NEW t \in good PROVE t \in Tokens
<1>1. issued \in 0 .. MaxRequests /\ t \in 1 .. issued
  BY DEF ServerTypeOK
<1>2. MaxRequests \in Nat
  BY Bounds
<1>3. QED
  BY <1>1, <1>2 DEF Tokens

LEMMA RequestIsMessage ==
    ASSUME Request
    PROVE  \E m : Deliver(m)
  BY DEF Request

LEMMA DeliveredIsAccountedFor ==
    ASSUME TypeInv, NoRequestForgotten, NEW m, Deliver(m), NEW t \in good'
    PROVE  AccountedFor(t)'
<1>1. /\ inbox' = Append(inbox, m) /\ inbox \in Seq(Message)
      /\ good' = good \cup {m.token}
      /\ UNCHANGED <<hand, task, unanswered>>
  BY DEF Deliver, TypeInv, ServerTypeOK, loop, history
<1>2. /\ Len(inbox) \in Nat /\ DOMAIN inbox' = 1 .. Len(inbox) + 1
      /\ inbox'[Len(inbox) + 1] = m
      /\ \A i \in 1 .. Len(inbox) : inbox'[i] = inbox[i]
      /\ DOMAIN inbox = 1 .. Len(inbox)
  BY <1>1
<1>3. CASE t = m.token
  BY <1>2, <1>3 DEF AccountedFor, Waiting
<1>4. CASE t \in good
  BY <1>1, <1>2, <1>4 DEF AccountedFor, Waiting, NoRequestForgotten
<1>5. QED
  BY <1>1, <1>3, <1>4

LEMMA FetchedIsAccountedFor ==
    ASSUME TypeInv, NoRequestForgotten, Fetch, NEW t \in good'
    PROVE  AccountedFor(t)'
<1>1. /\ t \in good /\ hand = Nil
      /\ UNCHANGED unanswered
      /\ Waiting(t) \/ task[t] # Nil \/ unanswered[t] \in Unheeded
  BY DEF Fetch, history, TypeInv, HandInv, NoRequestForgotten
<1>2. CASE TakeMessage
  <2>1. inbox \in Seq(Message) /\ inbox # <<>>
    BY <1>2 DEF TakeMessage, TypeInv, ServerTypeOK
  <2>2. /\ Head(inbox) \in Message /\ Len(inbox) \in Nat \ {0}
        /\ Head(inbox) = inbox[1]
        /\ Len(Tail(inbox)) = Len(inbox) - 1
        /\ \A i \in 1 .. Len(inbox) - 1 : Tail(inbox)[i] = inbox[i + 1]
        /\ Tail(inbox) \in Seq(Message)
    BY <2>1, TailOfSeq
  <2>3. hand' = inbox[1] /\ inbox' = Tail(inbox) /\ task' = task /\ hand' # Nil
    BY <1>2, <2>2, Bounds DEF TakeMessage
  <2>4. ASSUME Waiting(t) PROVE Waiting(t)' \/ hand'.token = t
    <3>1. PICK i \in 1 .. Len(inbox) : inbox[i].token = t
      BY <2>1, <2>4 DEF Waiting
    <3>2. CASE i = 1
      BY <2>3, <3>1, <3>2
    <3>3. CASE i # 1
      <4>1. i - 1 \in 1 .. Len(inbox) - 1 /\ Tail(inbox)[i - 1].token = t
        BY <2>2, <3>1, <3>3
      <4>2. i - 1 \in DOMAIN Tail(inbox)
        BY <2>2, <4>1
      <4>3. QED
        BY <2>3, <4>1, <4>2 DEF Waiting
    <3>4. QED
      BY <3>2, <3>3
  <2>5. QED
    BY <1>1, <2>3, <2>4 DEF AccountedFor
<1>3. CASE FetchError
  BY <1>1, <1>3 DEF FetchError, AfterServe, AccountedFor, Waiting
<1>4. QED
  BY <1>2, <1>3 DEF Fetch

LEMMA DispatchedIsAccountedFor ==
    ASSUME TypeInv, NoRequestForgotten, Dispatch, NEW t \in good'
    PROVE  AccountedFor(t)'
<1>1. hand # Nil /\ hand \in Message /\ hand.token \in Tokens
  BY MessageFields DEF Dispatch, TypeInv, HandInv, ServerTypeOK
<1>2. inbox' = inbox
  BY DEF Dispatch
<1>3. ASSUME NEW why \in Unheeded, NEW point, PassOver(point, why), task' = task
      PROVE  AccountedFor(t)'
  <2>1. /\ t \in good /\ t \in Tokens
        /\ unanswered' = [unanswered EXCEPT ![hand.token] = why]
    BY <1>3, GoodTokens DEF PassOver, TypeInv
  <2>2. unanswered \in [Tokens -> {"no", "not installed", "unknown method",
              "undecodable", "late verdict", "private store", "handler failed"}]
    BY DEF TypeInv, ServerTypeOK
  <2>3. QED
    BY <1>1, <1>2, <1>3, <2>1, <2>2 DEF AccountedFor, Waiting, NoRequestForgotten
<1>4. ASSUME NEW job \in {"handle", "judge"}, NEW s \in Services, Spawn(job, s)
      PROVE  AccountedFor(t)'
  <2>1. [job |-> job, service |-> s, making |-> 0] # Nil
    BY Bounds DEF Task
  <2>2. /\ t \in good /\ unanswered' = unanswered
        /\ task' = [task EXCEPT ![hand.token] =
                        [job |-> job, service |-> s, making |-> 0]]
    BY <1>4 DEF Spawn
  <2>3. task \in [Tokens -> Task \cup {Nil}]
    BY DEF TypeInv, ServerTypeOK
  <2>4. QED
    BY <1>1, <1>2, <2>1, <2>2, <2>3 DEF AccountedFor, Waiting, NoRequestForgotten
<1>5. CASE hand.type = "call" /\ DispatchCall
  <2>1. hand.service \in Services
    BY <1>1, <1>5, MessageFields DEF CallRequest
  <2>2. QED
    BY <1>3, <1>4, <1>5, <2>1 DEF DispatchCall, AfterServe, Unheeded
<1>6. CASE hand.type = "anonymous" /\ DispatchSubscription
  <2>1. CASE \E s \in Makers(hand.store) : Spawn("judge", s)
    BY <1>4, <2>1 DEF Makers
  <2>2. CASE Use(hand.token) /\ UNCHANGED <<task, unanswered>>
    <3>1. t \in good /\ t # hand.token
      BY <2>2 DEF Use
    <3>2. QED
      BY <1>2, <2>2, <3>1 DEF AccountedFor, Waiting, NoRequestForgotten
  <2>3. CASE PassOver("ended", "late verdict") /\ AfterServe /\ hand.token \notin good
    <3>1. /\ t \in good /\ t # hand.token /\ task' = task
          /\ unanswered' = [unanswered EXCEPT ![hand.token] = "late verdict"]
      BY <2>3 DEF PassOver, AfterServe
    <3>2. t \in Tokens /\ unanswered'[t] = unanswered[t]
      BY <1>1, <3>1, GoodTokens DEF TypeInv, ServerTypeOK
    <3>3. QED
      BY <1>2, <3>1, <3>2 DEF AccountedFor, Waiting, NoRequestForgotten
  <2>4. QED
    BY <1>6, <2>1, <2>2, <2>3 DEF DispatchSubscription
<1>7. CASE hand.type = "named" /\ PassOver("fetching", "private store") /\ UNCHANGED task
  BY <1>3, <1>7 DEF Unheeded
<1>8. QED
  BY <1>5, <1>6, <1>7 DEF Dispatch

LEMMA TaskIsAccountedFor ==
    ASSUME TypeInv, NoRequestForgotten, NEW t \in Tokens,
           Leave(t) \/ CreateStore(t) \/ RecordKind(t) \/ FinishCall(t) \/ Judge(t),
           NEW u \in good'
    PROVE  AccountedFor(u)'
<1>1. ServerTypeOK /\ u \in good /\ u \in Tokens
  <2>1. u \in good
    BY DEF Leave, CreateStore, RecordKind, FinishCall, Judge, Use, kernel
  <2>2. QED
    BY <2>1, GoodTokens DEF TypeInv
<1>2. UNCHANGED <<inbox, hand>>
  BY DEF Leave, CreateStore, RecordKind, FinishCall, Judge, kernel, loop
<1>3. AccountedFor(u)
  BY <1>1 DEF NoRequestForgotten, AccountedFor
<1>4. task \in [Tokens -> Task \cup {Nil}]
  BY <1>1 DEF ServerTypeOK
<1>5. CASE Leave(t)
  BY <1>2, <1>3, <1>5 DEF Leave, history, AccountedFor, Waiting
<1>6. CASE CreateStore(t)
  <2>1. PICK a \in AnonymousIds : task' = [task EXCEPT ![t].making = a]
    BY <1>6 DEF CreateStore
  <2>2. [task[t] EXCEPT !.making = a] \in Task
    BY <1>1, <1>6, HandlingTask DEF CreateStore, Handling, Task
  <2>3. task'[u] # Nil \/ task'[u] = task[u]
    BY <1>4, <2>1, <2>2, Bounds
  <2>4. QED
    BY <1>2, <1>3, <1>6, <2>3 DEF CreateStore, history, AccountedFor, Waiting
<1>7. CASE RecordKind(t)
  <2>1. [task[t] EXCEPT !.making = 0] \in Task
    BY <1>1, <1>7, HandlingTask DEF RecordKind, Handling, Task
  <2>2. task'[u] # Nil \/ task'[u] = task[u]
    BY <1>4, <1>7, <2>1, Bounds DEF RecordKind
  <2>3. QED
    BY <1>2, <1>3, <1>7, <2>2 DEF RecordKind, history, AccountedFor, Waiting
<1>8. CASE FinishCall(t)
  <2>1. CASE u = t
    <3>1. unanswered' = [unanswered EXCEPT ![t] = "handler failed"]
      BY <1>8, <2>1 DEF FinishCall, Use
    <3>2. QED
      BY <1>1, <2>1, <3>1 DEF AccountedFor, ServerTypeOK, Unheeded
  <2>2. CASE u # t
    <3>1. /\ task'[u] = task[u] /\ unanswered'[u] = unanswered[u]
      BY <1>1, <1>8, <2>2 DEF FinishCall, End, ServerTypeOK
    <3>2. QED
      BY <1>2, <1>3, <3>1 DEF AccountedFor, Waiting
  <2>3. QED
    BY <2>1, <2>2
<1>9. CASE Judge(t)
  <2>1. u # t
    BY <1>9 DEF Judge, Use
  <2>2. task'[u] = task[u] /\ unanswered' = unanswered
    BY <1>9, <2>1 DEF Judge, End, history
  <2>3. QED
    BY <1>2, <1>3, <2>2 DEF AccountedFor, Waiting
<1>10. QED
  BY <1>5, <1>6, <1>7, <1>8, <1>9

LEMMA StepAccountedFor == TypeInv /\ NoRequestForgotten /\ [Next]_vars => NoRequestForgotten'
<1> SUFFICES ASSUME TypeInv, NoRequestForgotten, [Next]_vars, NEW t \in good'
             PROVE  AccountedFor(t)'
  BY DEF NoRequestForgotten, AccountedFor
<1>1. CASE Request
  BY <1>1, RequestIsMessage, DeliveredIsAccountedFor
<1>2. CASE (\E s \in Services : Install(s)) \/ Serve \/ UNCHANGED vars
  BY <1>2 DEF Install, Serve, vars, kernel, loop, history, NoRequestForgotten,
              AccountedFor, Waiting
<1>3. CASE Fetch
  BY <1>3, FetchedIsAccountedFor
<1>4. CASE Dispatch
  BY <1>4, DispatchedIsAccountedFor
<1>5. CASE Exit
  BY <1>5 DEF Exit
<1>6. CASE \E u \in Tokens :
              Leave(u) \/ CreateStore(u) \/ RecordKind(u) \/ FinishCall(u) \/ Judge(u)
  BY <1>6, TaskIsAccountedFor
<1>7. QED
  BY <1>1, <1>2, <1>3, <1>4, <1>5, <1>6 DEF Next, ServeStep

(* A client whose request came in waits for something: the request is in   *)
(* the inbox, in the hands of the loop or with a task, also after serve    *)
(* has ended, or it was passed over for one of the causes named in         *)
(* NoRequestForgotten.                                                     *)
THEOREM NothingForgotten == Spec => []NoRequestForgotten
<1>1. Init => TypeInv /\ NoRequestForgotten
  BY InitTypes DEF Init, TypeInv, HandInv, NoRequestForgotten
<1>2. TypeInv /\ NoRequestForgotten /\ [Next]_vars => TypeInv' /\ NoRequestForgotten'
  BY StepTypes, StepAccountedFor
<1>3. QED
  BY <1>1, <1>2, PTL DEF Spec

-----------------------------------------------------------------------------
(* ToldStoresAreKnown is not inductive.  What a client was told a handler  *)
(* had made, what a handler has made is recorded for the service of the    *)
(* task, and that service stays installed while serve runs.                *)
Known(a) == \E s \in Services : setup[s] = "installed" /\ a \in kinds[s]

HandlersAreInstalled ==
    \A t \in Tokens : Handling(t) => setup[task[t].service] = "installed"

MadeIsKnown == \A t \in Tokens : \A a \in made[t] : Known(a)
ToldIsKnown == \A a \in told : Known(a)

(* A message says that its client was told only if somebody was. *)
Honest(m) == m.type = "anonymous" /\ m.known => m.store \in told

KnownInv ==
    /\ at # "ended" => HandlersAreInstalled /\ MadeIsKnown /\ ToldIsKnown
    /\ \A i \in DOMAIN inbox : Honest(inbox[i])
    /\ hand # Nil => Honest(hand)
    /\ ToldStoresAreKnown

(* What no step but RecordKind, FinishCall, Install and Exit disturbs *)
LEMMA KnownStays ==
    ASSUME UNCHANGED <<setup, kinds>>, NEW a
    PROVE  Known(a)' <=> Known(a)
  BY DEF Known

LEMMA RequestKeepsKnown == TypeInv /\ KnownInv /\ Request => KnownInv'
<1> SUFFICES ASSUME TypeInv, KnownInv, NEW m, Deliver(m),
                    m.type = "anonymous" => m.known = (m.store \in told)
             PROVE  KnownInv'
  BY DEF Request
<1>1. UNCHANGED <<at, hand, setup, kinds, task, made, told, refused>>
  BY DEF Deliver, loop, history
<1>2. Honest(m)
  BY DEF Honest
<1>3. \A i \in DOMAIN inbox' : Honest(inbox'[i])
  <2>1. inbox' = Append(inbox, m) /\ inbox \in Seq(Message)
    BY DEF Deliver, TypeInv, ServerTypeOK
  <2>2. QED
    BY <1>2, <2>1 DEF KnownInv
<1>4. QED
  BY <1>1, <1>3 DEF KnownInv, HandlersAreInstalled, MadeIsKnown, ToldIsKnown, Known,
                    Handling, Honest, ToldStoresAreKnown

LEMMA SetupKeepsKnown ==
    TypeInv /\ KnownInv /\ ((\E s \in Services : Install(s)) \/ Serve) => KnownInv'
<1> SUFFICES ASSUME TypeInv, KnownInv, (\E s \in Services : Install(s)) \/ Serve
             PROVE  KnownInv'
  OBVIOUS
<1>1. /\ at # "ended" /\ UNCHANGED <<inbox, hand, kinds, task, made, told, refused>>
      /\ HandlersAreInstalled /\ MadeIsKnown /\ ToldIsKnown
  BY DEF Install, Serve, KnownInv, kernel, loop, history
<1>2. \A s \in Services : setup[s] = "installed" => setup'[s] = "installed"
  BY DEF Install, Serve, TypeInv, ServerTypeOK
<1>3. \A a : Known(a) => Known(a)'
  BY <1>1, <1>2 DEF Known
<1>4. HandlersAreInstalled'
  <2>1. \A t \in Tokens : Handling(t) => task[t].service \in Services
    BY HandlingTask DEF Handling, TypeInv
  <2>2. QED
    BY <1>1, <1>2, <2>1 DEF HandlersAreInstalled, Handling
<1>5. MadeIsKnown' /\ ToldIsKnown'
  BY <1>1, <1>3 DEF MadeIsKnown, ToldIsKnown
<1>6. QED
  BY <1>1, <1>4, <1>5 DEF KnownInv, Honest, ToldStoresAreKnown

LEMMA FetchKeepsKnown == TypeInv /\ KnownInv /\ Fetch => KnownInv'
<1> SUFFICES ASSUME TypeInv, KnownInv, Fetch PROVE KnownInv'
  OBVIOUS
<1>1. UNCHANGED <<setup, kinds, made, told, refused, task>>
  BY DEF Fetch, history, TakeMessage, FetchError, AfterServe
<1>2. at # "ended" /\ HandlersAreInstalled /\ MadeIsKnown /\ ToldIsKnown
  BY DEF Fetch, KnownInv
<1>3. HandlersAreInstalled' /\ MadeIsKnown' /\ ToldIsKnown'
  BY <1>1, <1>2 DEF HandlersAreInstalled, MadeIsKnown, ToldIsKnown, Handling, Known
<1>4. (\A i \in DOMAIN inbox' : Honest(inbox'[i])) /\ (hand' # Nil => Honest(hand'))
  <2>1. CASE TakeMessage
    <3>1. inbox \in Seq(Message) /\ inbox # <<>>
      BY <2>1 DEF TakeMessage, TypeInv, ServerTypeOK
    <3>2. /\ Len(inbox) \in Nat \ {0} /\ Head(inbox) = inbox[1]
          /\ Len(Tail(inbox)) = Len(inbox) - 1
          /\ \A i \in 1 .. Len(inbox) - 1 : Tail(inbox)[i] = inbox[i + 1]
          /\ Tail(inbox) \in Seq(Message)
      BY <3>1, TailOfSeq
    <3>3. \A i \in 1 .. Len(inbox) : Honest(inbox[i])
      BY <3>1 DEF KnownInv
    <3>4. /\ DOMAIN Tail(inbox) = 1 .. Len(inbox) - 1
          /\ \A i \in 1 .. Len(inbox) - 1 : i + 1 \in 1 .. Len(inbox)
      BY <3>2
    <3>5. QED
      BY <2>1, <3>2, <3>3, <3>4 DEF TakeMessage
  <2>2. CASE FetchError
    BY <2>2 DEF FetchError, KnownInv
  <2>3. QED
    BY <2>1, <2>2 DEF Fetch
<1>5. ToldStoresAreKnown'
  BY <1>1 DEF KnownInv, ToldStoresAreKnown
<1>6. \A m : Honest(m)' <=> Honest(m)
  BY <1>1 DEF Honest
<1>7. QED
  BY <1>3, <1>4, <1>5, <1>6 DEF KnownInv

(* The one step that refuses: the loop still runs, so a store that was     *)
(* told is known, and one that is known is not refused.                    *)
LEMMA DispatchKeepsKnown == TypeInv /\ KnownInv /\ Dispatch => KnownInv'
<1> SUFFICES ASSUME TypeInv, KnownInv, Dispatch PROVE KnownInv'
  OBVIOUS
<1>1. /\ UNCHANGED <<inbox, setup, kinds, made, told>>
      /\ hand' = Nil
  BY DEF Dispatch, DispatchCall, DispatchSubscription, PassOver, Spawn
<1>2. at # "ended" /\ hand # Nil /\ hand \in Message /\ hand.token \in Tokens
  BY MessageFields DEF Dispatch, TypeInv, HandInv, ServerTypeOK
<1>3. HandlersAreInstalled /\ MadeIsKnown /\ ToldIsKnown
  BY <1>2 DEF KnownInv
<1>4. MadeIsKnown' /\ ToldIsKnown'
  BY <1>1, <1>3 DEF MadeIsKnown, ToldIsKnown, Known
<1>5. HandlersAreInstalled'
  <2>1. task \in [Tokens -> Task \cup {Nil}]
    BY DEF TypeInv, ServerTypeOK
  <2>2. CASE task' = task
    BY <1>1, <1>3, <2>2 DEF HandlersAreInstalled, Handling
  <2>3. CASE \E s \in Services : setup[s] = "installed" /\ Spawn("handle", s)
    BY <1>1, <1>2, <1>3, <2>1, <2>3 DEF Spawn, HandlersAreInstalled, Handling
  <2>4. CASE \E s \in Services : Spawn("judge", s)
    BY <1>1, <1>2, <1>3, <2>1, <2>4 DEF Spawn, HandlersAreInstalled, Handling
  <2>5. hand.type = "call" => hand.service \in Services
    BY <1>2, MessageFields DEF CallRequest
  <2>6. QED
    BY <2>2, <2>3, <2>4, <2>5 DEF Dispatch, DispatchCall, DispatchSubscription, Makers,
                                  AfterServe
<1>6. ToldStoresAreKnown'
  <2>1. CASE refused' = refused
    BY <2>1 DEF KnownInv, ToldStoresAreKnown
  <2>2. CASE /\ hand.type = "anonymous" /\ Makers(hand.store) = {}
             /\ refused' = refused \cup {hand}
    <3>1. ~Known(hand.store)
      BY <2>2 DEF Known, Makers
    <3>2. ~hand.known
      BY <1>2, <1>3, <2>2, <3>1 DEF KnownInv, Honest, ToldIsKnown
    <3>3. QED
      BY <2>2, <3>2 DEF KnownInv, ToldStoresAreKnown
  <2>3. QED
    BY <2>1, <2>2 DEF Dispatch, DispatchCall, DispatchSubscription, PassOver, Spawn
<1>7. QED
  BY <1>1, <1>4, <1>5, <1>6 DEF KnownInv, Honest

LEMMA TaskKeepsKnown ==
    ASSUME TypeInv, KnownInv, NEW t \in Tokens,
           Leave(t) \/ CreateStore(t) \/ RecordKind(t) \/ FinishCall(t) \/ Judge(t)
    PROVE  KnownInv'
<1>1. UNCHANGED <<inbox, setup, at, hand, refused>>
  BY DEF Leave, CreateStore, RecordKind, FinishCall, Judge, kernel, loop, history
<1>2. told \subseteq told'
  BY DEF Leave, CreateStore, RecordKind, FinishCall, Judge, history
<1>3. /\ \A i \in DOMAIN inbox' : Honest(inbox[i])'
      /\ hand' # Nil => Honest(hand)'
  BY <1>1, <1>2 DEF KnownInv, Honest
<1>4. ToldStoresAreKnown'
  BY <1>1 DEF KnownInv, ToldStoresAreKnown
<1>5. task \in [Tokens -> Task \cup {Nil}] /\ made \in [Tokens -> SUBSET AnonymousIds]
  BY DEF TypeInv, ServerTypeOK
<1>6. ASSUME at # "ended"
      PROVE  HandlersAreInstalled' /\ MadeIsKnown' /\ ToldIsKnown'
  <2>1. HandlersAreInstalled /\ MadeIsKnown /\ ToldIsKnown
    BY <1>6 DEF KnownInv
  <2>2. HandlersAreInstalled'
    <3>1. \A u \in Tokens : Handling(u)' =>
              Handling(u) /\ task'[u].service = task[u].service
      <4>1. CASE Leave(t)
        BY <4>1 DEF Leave, Handling
      <4>2. CASE CreateStore(t) \/ RecordKind(t)
        <5>1. PICK a : task' = [task EXCEPT ![t].making = a]
          BY <4>2 DEF CreateStore, RecordKind
        <5>2. task[t] \in Task
          BY <4>2, HandlingTask DEF CreateStore, RecordKind, Handling, TypeInv
        <5>3. /\ task'[t].job = task[t].job /\ task'[t].service = task[t].service
              /\ Handling(t)
              /\ \A u \in Tokens : u # t => task'[u] = task[u]
          BY <1>5, <4>2, <5>1, <5>2 DEF CreateStore, RecordKind, Handling, Task
        <5>4. QED
          BY <5>3 DEF Handling
      <4>3. CASE FinishCall(t) \/ Judge(t)
        BY <1>5, <4>3 DEF FinishCall, Judge, End, Handling
      <4>4. QED
        BY <4>1, <4>2, <4>3
    <3>2. QED
      BY <1>1, <2>1, <3>1 DEF HandlersAreInstalled
  <2>3. CASE RecordKind(t)
    <3>1. /\ task[t].service \in Services /\ setup[task[t].service] = "installed"
      BY <2>1, <2>3, HandlingTask DEF RecordKind, Handling, TypeInv, HandlersAreInstalled
    <3>2. kinds \in [Services -> SUBSET AnonymousIds]
      BY DEF TypeInv, ServerTypeOK
    <3>3. kinds' = [kinds EXCEPT ![task[t].service] = @ \cup {task[t].making}]
      BY <2>3 DEF RecordKind
    <3>4. \A a : Known(a) => Known(a)'
      BY <1>1, <3>2, <3>3 DEF Known
    <3>5. \A a : a = task[t].making => Known(a)'
      BY <1>1, <3>1, <3>2, <3>3 DEF Known
    <3>6. \A u \in Tokens : made'[u] \subseteq made[u] \cup {task[t].making}
      BY <1>5, <2>3 DEF RecordKind
    <3>7. told' = told
      BY <2>3 DEF RecordKind, history
    <3>8. QED
      BY <2>1, <2>2, <3>4, <3>5, <3>6, <3>7 DEF MadeIsKnown, ToldIsKnown
  <2>4. CASE FinishCall(t)
    <3>1. UNCHANGED <<kinds, made>>
      BY <2>4 DEF FinishCall
    <3>2. told' \subseteq told \cup made[t]
      BY <2>4 DEF FinishCall, Results
    <3>3. QED
      BY <1>1, <2>1, <2>2, <3>1, <3>2 DEF MadeIsKnown, ToldIsKnown, Known
  <2>5. CASE Leave(t) \/ CreateStore(t) \/ Judge(t)
    <3>1. UNCHANGED <<kinds, made, told>>
      BY <2>5 DEF Leave, CreateStore, Judge, history
    <3>2. QED
      BY <1>1, <2>1, <2>2, <3>1 DEF MadeIsKnown, ToldIsKnown, Known
  <2>6. QED
    BY <2>3, <2>4, <2>5
<1>7. QED
  BY <1>1, <1>3, <1>4, <1>6 DEF KnownInv

LEMMA StepKnown == TypeInv /\ KnownInv /\ [Next]_vars => KnownInv'
<1> SUFFICES ASSUME TypeInv, KnownInv, [Next]_vars PROVE KnownInv'
  OBVIOUS
<1>1. CASE Exit
  BY <1>1 DEF Exit, history, KnownInv, ToldStoresAreKnown
<1>2. CASE UNCHANGED vars
  BY <1>2 DEF vars, kernel, loop, history, KnownInv, HandlersAreInstalled, MadeIsKnown,
              ToldIsKnown, Known, Handling, Honest, ToldStoresAreKnown
<1>3. QED
  BY <1>1, <1>2, RequestKeepsKnown, SetupKeepsKnown, FetchKeepsKnown,
     DispatchKeepsKnown, TaskKeepsKnown DEF Next, ServeStep

(* A client that holds the id of a store because it was told is never      *)
(* refused with NoSuchAnonymousStore: RecordKind comes before the handler  *)
(* returns, and no entry is ever taken out of anonymous_kinds.             *)
THEOREM ToldStoresStayKnown == Spec => []ToldStoresAreKnown
<1>1. Init => TypeInv /\ KnownInv
  BY InitTypes DEF Init, TypeInv, HandInv, KnownInv, HandlersAreInstalled, MadeIsKnown,
                   ToldIsKnown, Handling, ToldStoresAreKnown
<1>2. TypeInv /\ KnownInv /\ [Next]_vars => TypeInv' /\ KnownInv'
  BY StepTypes, StepKnown
<1>3. KnownInv => ToldStoresAreKnown
  BY DEF KnownInv
<1>4. QED
  BY <1>1, <1>2, <1>3, PTL DEF Spec
===============================================================================
