------------------------------ MODULE MidlServer ------------------------------
(***************************************************************************)
(* The server that midl generates (midl/src/codegen/rust.rs): services are *)
(* installed into one ServerRuntime, which has one connection; serve takes *)
(* the messages one after the other and spawns a task for each request it  *)
(* can decode.  Tasks run side by side with the loop and with one another, *)
(* make anonymous stores, and answer with the token of the request.        *)
(*                                                                         *)
(* The kernel, see Motherboard, is here what this connection sees of it:   *)
(* an inbox, the tokens that are still good, and the anonymous stores.  A  *)
(* token is issued when its request comes into the inbox, and each request *)
(* has a client of its own, which may leave.  A function is one whose      *)
(* handler may make stores before it returns; what else it does takes any  *)
(* time, for ever included.                                                *)
(***************************************************************************)
EXTENDS Common, Naturals, Sequences

CONSTANTS
    Services,
    Forms,        \* what requests look like to decode_request
    FetchMayFail, \* a fetch may have an error other than WouldBlock
    \* bounds
    MaxRequests, MaxAnonymous

ASSUME ServerAssumption ==
    /\ {MaxRequests, MaxAnonymous} \subseteq Nat
    /\ FetchMayFail \in BOOLEAN
    /\ Forms \subseteq {"good", "undecodable", "unknown method"}

Tokens == 1 .. MaxRequests
AnonymousIds == 1 .. MaxAnonymous

(* known is history: whether the client had been told of the store. *)
CallRequest == [type : {"call"}, token : Tokens, service : Services, form : Forms]
AnonymousSubscribe ==
    [type : {"anonymous"}, token : Tokens, store : AnonymousIds, known : BOOLEAN]
NamedSubscribe == [type : {"named"}, token : Tokens]
Message == CallRequest \cup AnonymousSubscribe \cup NamedSubscribe

(* A spawned task: a handler, with the store it makes, or a verdict        *)
Task == [job : {"handle", "judge"}, service : Services, making : AnonymousIds \cup {0}]

ASSUME NilAssumption == Nil \notin Message \cup Task

VARIABLES
    \* the kernel
    inbox,      \* the requests that were not fetched
    issued,     \* the last token
    good,       \* the tokens that may still be used
    stores,     \* the anonymous stores ever created
    \* the process
    setup,      \* setup[s]: how far install got with s
    at, hand,   \* serve, and the message it has
    kinds,      \* kinds[s]: the stores in anonymous_kinds of s
    task,       \* task[t]: the task that has token t, or Nil
    made,       \* made[t]: what the handler of t has made
    \* history
    told,       \* the stores some client was told of
    refused,    \* the requests refused with NoSuchAnonymousStore
    unanswered  \* unanswered[t]: why t is in nobody's hands, or "no"

kernel == <<inbox, issued, good, stores>>
loop == <<at, hand>>
history == <<told, refused, unanswered>>
vars == <<kernel, setup, loop, kinds, task, made, history>>

Init ==
    /\ inbox = <<>> /\ issued = 0 /\ good = {} /\ stores = {}
    /\ setup = [s \in Services |-> "absent"]
    /\ at = "installing" /\ hand = Nil
    /\ kinds = [s \in Services |-> {}]
    /\ task = [t \in Tokens |-> Nil]
    /\ made = [t \in Tokens |-> {}]
    /\ told = {} /\ refused = {}
    /\ unanswered = [t \in Tokens |-> "no"]

Use(t) == good' = good \ {t}
-----------------------------------------------------------------------------
(* The clients *)

Deliver(m) ==
    /\ issued' = m.token
    /\ good' = good \cup {m.token}
    /\ inbox' = Append(inbox, m)
    /\ UNCHANGED <<stores, setup, loop, kinds, task, made, history>>

Request ==
    LET next == issued + 1 IN
    /\ next \in Tokens
    /\ \/ \E s \in Services, form \in Forms :
             /\ setup[s] \notin {"absent", "gone"}
             /\ Deliver([type |-> "call", token |-> next, service |-> s, form |-> form])
       \/ \E a \in stores :
             Deliver([type |-> "anonymous", token |-> next, store |-> a,
                      known |-> a \in told])
       \/ /\ \E s \in Services : setup[s] \notin {"absent", "gone"}
          /\ Deliver([type |-> "named", token |-> next])

(* The client of t closes: its token goes, its message stays. *)
Leave(t) ==
    /\ t \in good
    /\ Use(t)
    /\ UNCHANGED <<inbox, issued, stores, setup, loop, kinds, task, made, history>>
-----------------------------------------------------------------------------
(* install: the service is bound, its named stores are created, and only   *)
(* then is it put into the runtime.  When an initial value or a store is   *)
(* not to be had, it stays bound.                                          *)
Install(s) ==
    /\ at = "installing"
    /\ \/ /\ setup[s] = "absent" /\ \A r \in Services : setup[r] # "bound"
          /\ setup' = [setup EXCEPT ![s] = "bound"]
       \/ /\ setup[s] = "bound"
          /\ setup' = [setup EXCEPT ![s] = "installed"]
       \/ /\ setup[s] = "bound"
          /\ setup' = [setup EXCEPT ![s] = "failed"]
    /\ UNCHANGED <<kernel, loop, kinds, task, made, history>>

Serve ==
    /\ at = "installing" /\ \A s \in Services : setup[s] # "bound"
    /\ at' = "fetching"
    /\ UNCHANGED <<kernel, setup, hand, kinds, task, made, history>>

(* Mutated form of AfterServe: the tasks belong to the loop. *)
AbortTasks == task' = [t \in Tokens |-> Nil]

(* serve returns; what was spawned goes on. *)
AfterServe == task' = task

TakeMessage ==
    /\ inbox # <<>>
    /\ hand' = Head(inbox) /\ inbox' = Tail(inbox)
    /\ at' = "dispatching"
    /\ UNCHANGED task

FetchError ==
    /\ FetchMayFail
    /\ at' = "ended" /\ AfterServe
    /\ UNCHANGED <<inbox, hand>>

(* Mutated form of Fetch: the loop awaits the handler it started. *)
FetchWhenDone ==
    /\ at = "fetching" /\ \A t \in Tokens : task[t] = Nil
    /\ TakeMessage \/ FetchError
    /\ UNCHANGED <<issued, good, stores, setup, kinds, made, history>>

(* fetch_async *)
Fetch ==
    /\ at = "fetching"
    /\ TakeMessage \/ FetchError
    /\ UNCHANGED <<issued, good, stores, setup, kinds, made, history>>

(* One turn of the loop ends and the request is in nobody's hands. *)
PassOver(point, why) ==
    /\ at' = point /\ hand' = Nil
    /\ unanswered' = [unanswered EXCEPT ![hand.token] = why]
    /\ UNCHANGED <<good, refused>>

Spawn(job, s) ==
    /\ task' = [task EXCEPT ![hand.token] = [job |-> job, service |-> s, making |-> 0]]
    /\ at' = "fetching" /\ hand' = Nil
    /\ UNCHANGED <<good, refused, unanswered>>

(* The arm FunctionCallRequest: what is not installed or not known is      *)
(* passed over, and a payload that does not decode ends serve.             *)
DispatchCall ==
    LET s == hand.service IN
    \/ setup[s] # "installed" /\ PassOver("fetching", "not installed") /\ UNCHANGED task
    \/ /\ setup[s] = "installed" /\ hand.form = "unknown method"
       /\ PassOver("fetching", "unknown method") /\ UNCHANGED task
    \/ /\ setup[s] = "installed" /\ hand.form = "undecodable"
       /\ PassOver("ended", "undecodable") /\ AfterServe
    \/ setup[s] = "installed" /\ hand.form = "good" /\ Spawn("handle", s)

Makers(a) == {s \in Services : setup[s] = "installed" /\ a \in kinds[s]}

(* The arm AnonymousStoreSubscribeRequest: the service that made the store *)
(* judges; when none did the loop itself rejects, and if the token is no   *)
(* longer good, the error ends serve.                                      *)
DispatchSubscription ==
    \/ \E s \in Makers(hand.store) : Spawn("judge", s)
    \/ /\ Makers(hand.store) = {} /\ hand.token \in good
       /\ Use(hand.token)
       /\ refused' = refused \cup {hand}
       /\ at' = "fetching" /\ hand' = Nil
       /\ UNCHANGED <<task, unanswered>>
    \/ /\ Makers(hand.store) = {} /\ hand.token \notin good
       /\ PassOver("ended", "late verdict") /\ AfterServe

Dispatch ==
    /\ at = "dispatching"
    /\ \/ hand.type = "call" /\ DispatchCall
       \/ hand.type = "anonymous" /\ DispatchSubscription
       \/ hand.type = "named" /\ PassOver("fetching", "private store") /\ UNCHANGED task
    /\ UNCHANGED <<inbox, issued, stores, setup, kinds, made, told>>
-----------------------------------------------------------------------------
(* The tasks *)

Handling(t) == task[t] # Nil /\ task[t].job = "handle"
End(t) == task' = [task EXCEPT ![t] = Nil]

(* The context's create_<function>_store: the kernel makes the store, then *)
(* it is put into anonymous_kinds; the loop may run in between.            *)
CreateStore(t) ==
    /\ Handling(t) /\ task[t].making = 0
    /\ \E a \in AnonymousIds :
          /\ stores = 1 .. a - 1
          /\ stores' = stores \cup {a}
          /\ task' = [task EXCEPT ![t].making = a]
    /\ UNCHANGED <<inbox, issued, good, setup, loop, kinds, made, history>>

(* Mutated form of RecordKind: the id is recorded before there is one. *)
RecordEagerly(t) ==
    /\ Handling(t)
    /\ kinds' = [kinds EXCEPT ![task[t].service] = @ \cup {task[t].making}]
    /\ made' = [made EXCEPT ![t] = @ \cup {task[t].making}]
    /\ task' = [task EXCEPT ![t].making = 0]
    /\ UNCHANGED <<kernel, setup, loop, history>>

RecordKind(t) ==
    /\ Handling(t) /\ task[t].making # 0
    /\ kinds' = [kinds EXCEPT ![task[t].service] = @ \cup {task[t].making}]
    /\ made' = [made EXCEPT ![t] = @ \cup {task[t].making}]
    /\ task' = [task EXCEPT ![t].making = 0]
    /\ UNCHANGED <<kernel, setup, loop, history>>

(* Mutated form of Results: the handler has the id before it is recorded. *)
ResultsSoFar(t) == {made[t] \cup ({task[t].making} \ {0})}

(* What a handler may return, and when: create_<function>_store has ended. *)
Results(t) == IF task[t].making = 0 THEN {made[t]} ELSE {}

(* dispatch_trait_request: the handler returns and its value is sent; an   *)
(* error of a function that declares none is printed and nothing is sent;  *)
(* a handler whose context has an error from the kernel panics, also when  *)
(* the store was made and the result lost.                                 *)
FinishCall(t) ==
    /\ Handling(t)
    /\ \/ \E result \in Results(t) :
             /\ Use(t)
             /\ told' = IF t \in good THEN told \cup result ELSE told
             /\ UNCHANGED unanswered
       \/ /\ unanswered' = [unanswered EXCEPT ![t] = "handler failed"]
          /\ UNCHANGED <<good, told>>
    /\ End(t)
    /\ UNCHANGED <<inbox, issued, stores, setup, loop, kinds, made, refused>>

(* dispatch_anonymous_subscription: accepted or rejected, either way the   *)
(* token is used up, or it was no longer good and the error is printed.    *)
Judge(t) ==
    /\ task[t] # Nil /\ task[t].job = "judge"
    /\ Use(t) /\ End(t)
    /\ UNCHANGED <<inbox, issued, stores, setup, loop, kinds, made, history>>

(* The process exits, and the kernel closes the connection.  Until then    *)
(* the connection stays open, for it is leaked (Box::leak in new).         *)
Exit ==
    /\ at = "ended"
    /\ \E s \in Services : setup[s] # "gone"
    /\ inbox' = <<>> /\ good' = {} /\ stores' = {}
    /\ setup' = [s \in Services |-> "gone"]
    /\ task' = [t \in Tokens |-> Nil]
    /\ hand' = Nil
    /\ UNCHANGED <<issued, at, kinds, made, history>>
-----------------------------------------------------------------------------
ServeStep == Fetch \/ Dispatch

Next ==
    \/ Request
    \/ \E s \in Services : Install(s)
    \/ Serve \/ ServeStep \/ Exit
    \/ \E t \in Tokens :
          Leave(t) \/ CreateStore(t) \/ RecordKind(t) \/ FinishCall(t) \/ Judge(t)

(* The loop runs.  Nothing makes a handler end. *)
Spec == Init /\ [][Next]_vars /\ WF_vars(ServeStep)
-----------------------------------------------------------------------------
(* Type correctness of ServerRuntime and its tasks. *)
ServerTypeOK ==
    /\ inbox \in Seq(Message)
    /\ issued \in 0 .. MaxRequests
    /\ good \subseteq 1 .. issued
    /\ stores \subseteq AnonymousIds
    /\ setup \in [Services -> {"absent", "bound", "failed", "installed", "gone"}]
    /\ at \in {"installing", "fetching", "dispatching", "ended"}
    /\ hand \in Message \cup {Nil}
    /\ kinds \in [Services -> SUBSET AnonymousIds]
    /\ task \in [Tokens -> Task \cup {Nil}]
    /\ made \in [Tokens -> SUBSET AnonymousIds]
    /\ told \subseteq AnonymousIds
    /\ refused \subseteq AnonymousSubscribe
    /\ unanswered \in [Tokens -> {"no", "not installed", "unknown method", "undecodable",
                                  "late verdict", "private store", "handler failed"}]

Waiting(t) == \E i \in DOMAIN inbox : inbox[i].token = t

(* The ways in which a client that still waits is left without any answer. *)
Unheeded == {"not installed", "unknown method", "undecodable", "private store",
             "handler failed"}

(* A request whose client still waits is in the inbox, in the loop's hands *)
(* or in a task of its own, also after serve has ended, or it was left in  *)
(* one of five ways, where midl/docs/rust-mapping.md:250 knows none        *)
(* ("sends the appropriate success or error replies").                     *)
NoRequestForgotten ==
    \A t \in good :
        \/ Waiting(t) \/ task[t] # Nil \/ unanswered[t] \in Unheeded
        \/ hand # Nil /\ hand.token = t

(* A client that was told of a store is never refused because the server   *)
(* does not know it: the store is in the registry before the handler       *)
(* returns its id, and no clean-up takes it out.  One that guesses the id  *)
(* may come too early.                                                     *)
ToldStoresAreKnown == \A m \in refused : ~m.known

(* "One slow request must not stop the service from starting later         *)
(* requests" (midl/docs/rust-mapping.md:265): every request is taken out   *)
(* of the inbox, although handlers and judges may never end, unless serve  *)
(* has ended.                                                              *)
LaterRequestsStart ==
    \A t \in Tokens :
        (Waiting(t) /\ at # "installing") ~> (~Waiting(t) \/ at = "ended")
===============================================================================
