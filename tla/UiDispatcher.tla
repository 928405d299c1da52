----------------------------- MODULE UiDispatcher -----------------------------
(***************************************************************************)
(* The UI integration (motherboard-ardos-ui-integration/src/lib.rs): the   *)
(* components of one process follow stores over one connection.  A map     *)
(* from subscription ids to channels is shared by the threads that         *)
(* subscribe and unsubscribe, and by the dispatcher thread, which fetches  *)
(* every message and passes the values on.  The map and the kernel's table *)
(* of subscriptions are changed one after the other, never together.       *)
(*                                                                         *)
(* The first section is the kernel as this connection sees it, see         *)
(* Motherboard, with one store for each service and with the writes as     *)
(* values.  Other messages (the replies to calls that components make      *)
(* through the same connection) are thrown away by the dispatcher and left *)
(* out.  A step of a thread ends where it releases the map or returns from *)
(* a command.  A command may run out of memory or of descriptors, this     *)
(* connection's or another's, before the kernel has run it, half-way, or   *)
(* when there is only the result left to hand over.                        *)
(***************************************************************************)
EXTENDS Common, Naturals, Sequences, SequencesExt

CONSTANTS
    Services,
    Visibilities,   \* values of the public flag of a store
    \* what the environment may do wrong
    FetchMayFail,   \* a fetch may have an error other than WouldBlock, poll too
    CommandsMayFail,    \* the other commands may run out of a resource
    \* bounds
    MaxSubscribes, MaxWrites

ASSUME UiAssumption ==
    /\ {MaxSubscribes, MaxWrites} \subseteq Nat
    /\ {FetchMayFail, CommandsMayFail} \subseteq BOOLEAN
    /\ Visibilities \subseteq BOOLEAN
    /\ Nil \notin Services /\ Nil \notin [value : Nat, public : BOOLEAN]

Ids == 1 .. MaxSubscribes
Values == 1 .. MaxWrites

ValueMessage(type, id, value) == [type |-> type, id |-> id, value |-> value]
EndMessage(type, id) == [type |-> type, id |-> id]
ServiceClosed(s) == [type |-> "ServiceClosed", service |-> s]

Message ==
    [type : {"Accepted", "Updated"}, id : Ids, value : Values] \cup
    [type : {"Rejected", "Closed"}, id : Ids] \cup
    [type : {"ServiceClosed"}, service : Services]

ASSUME NilAssumption == Nil \notin Message /\ Nil \notin Seq(Message)

VARIABLES
    \* the kernel
    store,      \* store[s]: the store of service s while it is bound, or Nil
    lastWrite,
    active,     \* the ids subscribed
    pending,    \* the ids that wait for a verdict
    inbox,      \* the connection's inbox; Nil before anything needed it
    connected,  \* the file is open
    unheard,    \* history: the ids whose last news could not be queued
    \* the process
    handle,     \* a MotherboardUi exists
    entries,    \* subscriptions: the ids in the map
    service,    \* service[id]: what the id was used for, or Nil
    sub,        \* where each subscription is in its life
    at, hand,   \* the dispatcher thread, and the message it has
    shown,      \* shown[id]: the last value sent into the channel of id
    cause       \* history: what separated id's entry from the kernel's, or Nil

kernel == <<store, lastWrite, active, pending, inbox, connected, unheard>>
thread == <<at, hand>>
threads == <<service, sub>>
vars == <<kernel, handle, entries, threads, thread, shown, cause>>

Points == {"unused", "registered", "failing", "held", "removing", "over"}

Init ==
    /\ store = [s \in Services |-> Nil] /\ lastWrite = 0
    /\ active = {} /\ pending = {} /\ inbox = Nil /\ unheard = {}
    /\ connected = TRUE /\ handle = TRUE
    /\ entries = {}
    /\ service = [id \in Ids |-> Nil]
    /\ sub = [id \in Ids |-> "unused"]
    /\ at = "upgrading" /\ hand = Nil
    /\ shown = [id \in Ids |-> 0]
    /\ cause = [id \in Ids |-> Nil]

HasMessage == inbox # Nil /\ inbox # <<>>
Queued(ms) == (IF inbox = Nil THEN <<>> ELSE inbox) \o ms
InAnyOrder(ids) == SetToSeqs(ids)
-----------------------------------------------------------------------------
(* The kernel's side *)

CreateStore(s, public) ==
    /\ store[s] = Nil /\ lastWrite < MaxWrites
    /\ lastWrite' = lastWrite + 1
    /\ store' = [store EXCEPT ![s] = [value |-> lastWrite', public |-> public]]
    /\ UNCHANGED <<active, pending, inbox, connected, unheard, handle, entries,
                   threads, thread, shown, cause>>

Followers(s) == {id \in active : service[id] = s}

(* The loop over the followers stops at the first whose inbox cannot be    *)
(* allocated.  That may be another connection's: any of ours may be missed.*)
UpdateStore(s) ==
    /\ store[s] # Nil /\ lastWrite < MaxWrites
    /\ lastWrite' = lastWrite + 1
    /\ store' = [store EXCEPT ![s].value = lastWrite']
    /\ \E told \in SUBSET Followers(s) :
          /\ told = Followers(s) \/ CommandsMayFail
          /\ \E ids \in InAnyOrder(told) :
                inbox' = IF ids = <<>> THEN inbox
                         ELSE Queued([i \in DOMAIN ids |->
                                          ValueMessage("Updated", ids[i], lastWrite')])
          /\ unheard' = (unheard \ told) \cup (Followers(s) \ told)
    /\ UNCHANGED <<active, pending, connected, handle, entries, threads,
                   thread, shown, cause>>

Verdict(id, accepted) ==
    /\ id \in pending
    /\ pending' = pending \ {id}
    /\ active' = IF accepted THEN active \cup {id} ELSE active
    /\ \/ /\ inbox' = Queued(<<IF accepted
                               THEN ValueMessage("Accepted", id, store[service[id]].value)
                               ELSE EndMessage("Rejected", id)>>)
          /\ UNCHANGED unheard
       \/ /\ CommandsMayFail /\ inbox = Nil
          /\ unheard' = unheard \cup {id}
          /\ UNCHANGED inbox
    /\ UNCHANGED <<store, lastWrite, connected, handle, entries, threads,
                   thread, shown, cause>>

(* Every queue of cleanup is tried, whatever became of the one before. *)
MayBeTold(told, s) ==
    \/ told = Followers(s)
    \/ CommandsMayFail /\ inbox = Nil /\ told \subseteq Followers(s)

(* cleanup of the provider: the followers are told one by one, and then    *)
(* everybody who has an inbox; who waits for a verdict hears that only.    *)
CloseService(s) ==
    /\ store[s] # Nil
    /\ store' = [store EXCEPT ![s] = Nil]
    /\ active' = active \ Followers(s)
    /\ pending' = {id \in pending : service[id] # s}
    /\ \E told \in SUBSET Followers(s) :
          /\ MayBeTold(told, s)
          /\ \E ids \in InAnyOrder(told) :
                inbox' = IF inbox = Nil /\ ids = <<>> THEN Nil
                         ELSE Queued([i \in DOMAIN ids |-> EndMessage("Closed", ids[i])]
                                         \o <<ServiceClosed(s)>>)
          /\ unheard' = IF inbox = Nil /\ told = {}
                        THEN unheard \cup {id \in active \cup pending : service[id] = s}
                        ELSE unheard
    /\ UNCHANGED <<lastWrite, connected, handle, entries, threads, thread, shown,
                   cause>>

-----------------------------------------------------------------------------
(* The life of a connection: the handles and whoever upgraded the Weak.    *)

(* Mutated form of DispatcherHolds: the thread has an Arc of its own. *)
DispatcherAlwaysHolds == at # "ended"

(* The dispatcher keeps the Arc it upgraded for one turn of its loop, also *)
(* while it sleeps.                                                        *)
DispatcherHolds == at \notin {"upgrading", "ended"}

Referenced == handle \/ DispatcherHolds \/ \E id \in Ids : sub[id] = "removing"

(* Inner is dropped, and with it the map and the connection. *)
Disconnect ==
    /\ connected /\ ~Referenced
    /\ connected' = FALSE
    /\ active' = {} /\ pending' = {} /\ inbox' = Nil /\ entries' = {}
    /\ UNCHANGED <<store, lastWrite, unheard, handle, threads, thread, shown, cause>>

DropHandle ==
    /\ handle /\ \A id \in Ids : sub[id] \notin {"registered", "failing"}
    /\ handle' = FALSE
    /\ UNCHANGED <<kernel, entries, threads, thread, shown, cause>>
-----------------------------------------------------------------------------
(* subscribe_store: its map insertion, its command, and the removal when   *)
(* the command failed.                                                     *)

Goto(id, point) == sub' = [sub EXCEPT ![id] = point]

(* Mutated form of Register: the map gets an id of its own. *)
RegisterNextId(id, s) ==
    /\ service' = [service EXCEPT ![id] = s]
    /\ entries' = entries \cup {id + 1}
    /\ UNCHANGED <<kernel, cause>>

Register(id, s) ==
    /\ service' = [service EXCEPT ![id] = s]
    /\ entries' = entries \cup {id}
    /\ UNCHANGED <<kernel, cause>>

PublicStore(s) == store[s] # Nil /\ store[s].public
PrivateStore(s) == store[s] # Nil /\ ~store[s].public

(* The kernel's tables after StoreSubscribe: they are changed first. *)
Enter(id, s) ==
    /\ active' = IF PublicStore(s) THEN active \cup {id} ELSE active
    /\ pending' = IF PrivateStore(s) THEN pending \cup {id} ELSE pending
    /\ UNCHANGED <<store, lastWrite, connected, unheard>>

(* subscribe_with_id, see SubscribePublic and SubscribePrivate *)
Ask(id, s) ==
    /\ Enter(id, s)
    /\ inbox' = IF PublicStore(s)
                THEN Queued(<<ValueMessage("Accepted", id, store[s].value)>>)
                ELSE inbox
    /\ UNCHANGED cause

(* subscribe_with_id has an error: there is no such store, or the command  *)
(* was not run, or it was and failed after that, when a message could not  *)
(* be queued or the result not be handed over.  Nothing is rolled back.    *)
(* A provider whose inbox was short gives no verdict; that it may here is  *)
(* the same as a result that was lost.                                     *)
AskInVain(id, s) ==
    \/ /\ store[s] = Nil \/ CommandsMayFail
       /\ UNCHANGED <<kernel, cause>>
    \/ /\ CommandsMayFail /\ store[s] # Nil
       /\ Enter(id, s)
       /\ \/ PublicStore(s) /\ inbox' = Queued(<<ValueMessage("Accepted", id, store[s].value)>>)
          \/ (PublicStore(s) => inbox = Nil) /\ UNCHANGED inbox
       /\ cause' = [cause EXCEPT ![id] = "failed"]

NextId(id) == sub[id] = "unused" /\ \A i \in 1 .. id - 1 : sub[i] # "unused"

(* Mutated form of SubscribeStore: the map is filled after the command. *)
SubscribeThenRegister(id) ==
    /\ \/ /\ handle /\ NextId(id)
          /\ \E s \in Services :
                /\ store[s] # Nil
                /\ Ask(id, s)
                /\ service' = [service EXCEPT ![id] = s]
          /\ Goto(id, "registered")
          /\ UNCHANGED entries
       \/ /\ sub[id] = "registered"
          /\ Register(id, service[id])
          /\ Goto(id, "held")
    /\ UNCHANGED <<handle, thread, shown>>

SubscribeStore(id) ==
    /\ \/ /\ handle /\ NextId(id)
          /\ \E s \in Services : Register(id, s)
          /\ Goto(id, "registered")
       \/ /\ sub[id] = "registered"
          /\ \/ store[service[id]] # Nil /\ Ask(id, service[id]) /\ Goto(id, "held")
             \/ AskInVain(id, service[id]) /\ Goto(id, "failing")
          /\ UNCHANGED <<entries, service>>
       \/ /\ sub[id] = "failing"
          /\ entries' = entries \ {id}
          /\ Goto(id, "over")
          /\ UNCHANGED <<kernel, service, cause>>
    /\ UNCHANGED <<handle, thread, shown>>

(* Mutated form of Cancel: the kernel is not told. *)
CancelNothing(id) == UNCHANGED <<active, cause>>

(* unsubscribe, see StoreUnsubscribe; its error is ignored: a subscription *)
(* that waits for its verdict has one, whatever became of the command, and *)
(* so has a command that was not run.                                      *)
Cancel(id) ==
    \/ /\ active' = active \ {id}
       /\ cause' = IF id \in pending THEN [cause EXCEPT ![id] = "dropped"] ELSE cause
    \/ /\ CommandsMayFail /\ id \in active
       /\ cause' = [cause EXCEPT ![id] = "failed"]
       /\ UNCHANGED active

(* The component drops its ExternalStoreSubscription: the closure of       *)
(* subscribe_store, with its two steps.  Without a connection it does      *)
(* nothing.                                                                *)
Unsubscribe(id) ==
    /\ \/ /\ sub[id] = "held" /\ connected /\ Referenced
          /\ Cancel(id)
          /\ Goto(id, "removing")
          /\ UNCHANGED entries
       \/ /\ sub[id] = "held" /\ ~Referenced
          /\ Goto(id, "over")
          /\ UNCHANGED <<active, entries, cause>>
       \/ /\ sub[id] = "removing"
          /\ entries' = entries \ {id}
          /\ Goto(id, "over")
          /\ UNCHANGED <<active, cause>>
    /\ UNCHANGED <<store, lastWrite, pending, inbox, connected, unheard, handle,
                   service, thread, shown>>
-----------------------------------------------------------------------------
(* The dispatcher thread: spawn_dispatcher, dispatch_message *)

Move(point, message) == at' = point /\ hand' = message

(* The head of the loop: the Weak is upgraded, or the thread ends. *)
Upgrade ==
    /\ at = "upgrading"
    /\ Move(IF connected /\ Referenced THEN "fetching" ELSE "ended", Nil)
    /\ UNCHANGED <<kernel, handle, entries, threads, shown, cause>>

(* fetch: a message, or a latch and an inbox to go with it, or an error    *)
(* that ends the thread: before anything was done, or when the message or  *)
(* the latch could not be handed over.                                     *)
Fetch ==
    /\ at = "fetching"
    /\ \/ HasMessage /\ inbox' = Tail(inbox) /\ Move("dispatching", Head(inbox))
       \/ ~HasMessage /\ inbox' = Queued(<<>>) /\ Move("sleeping", Nil)
       \/ /\ FetchMayFail
          /\ inbox' \in {inbox, IF HasMessage THEN Tail(inbox) ELSE Queued(<<>>)}
          /\ Move("ended", Nil)
    /\ UNCHANGED <<store, lastWrite, active, pending, connected, unheard, handle,
                   entries, threads, shown, cause>>

(* wait_for_latch returns when the latch has tripped. *)
Wake ==
    /\ at = "sleeping" /\ HasMessage
    /\ Move("upgrading", Nil)
    /\ UNCHANGED <<kernel, handle, entries, threads, shown, cause>>

(* wait_for_latch has an error other than EINTR. *)
WaitFails ==
    /\ at = "sleeping" /\ FetchMayFail
    /\ Move("ended", Nil)
    /\ UNCHANGED <<kernel, handle, entries, threads, shown, cause>>

(* Mutated form of HasValue: the first value is taken for a notice. *)
IsUpdate(m) == m.type = "Updated"

HasValue(m) == m.type \in {"Accepted", "Updated"}

(* Mutated form of Ended: who waits for a verdict is not counted. *)
EndedByClosed(m) == IF m.type \in {"Rejected", "Closed"} THEN entries \cap {m.id} ELSE {}

(* The ids whose entries a message removes *)
Ended(m) ==
    CASE m.type \in {"Rejected", "Closed"} -> entries \cap {m.id}
      [] m.type = "ServiceClosed" -> {id \in entries : service[id] = m.service}
      [] OTHER -> {}

(* dispatch_message, to the end or to the send of send_store_value: the    *)
(* sender is cloned under the lock and used after it.                      *)
Dispatch ==
    /\ at = "dispatching"
    /\ IF HasValue(hand) /\ hand.id \in entries
       THEN Move("sending", hand) ELSE Move("upgrading", Nil)
    /\ entries' = entries \ Ended(hand)
    /\ cause' = IF hand.type = "ServiceClosed"
                THEN [id \in Ids |-> IF id \in Ended(hand) THEN "overtaken" ELSE cause[id]]
                ELSE cause
    /\ UNCHANGED <<kernel, handle, threads, shown>>

Send ==
    /\ at = "sending"
    /\ shown' = [shown EXCEPT ![hand.id] = hand.value]
    /\ Move("upgrading", Nil)
    /\ UNCHANGED <<kernel, handle, entries, threads, cause>>

DispatcherStep == Upgrade \/ Fetch \/ Wake \/ Dispatch \/ Send
-----------------------------------------------------------------------------
Next ==
    \/ \E s \in Services, public \in Visibilities : CreateStore(s, public)
    \/ \E s \in Services : UpdateStore(s) \/ CloseService(s)
    \/ \E id \in Ids, accepted \in BOOLEAN : Verdict(id, accepted)
    \/ \E id \in Ids : SubscribeStore(id) \/ Unsubscribe(id)
    \/ DropHandle \/ Disconnect
    \/ DispatcherStep \/ WaitFails

(* The threads run; nothing makes a component subscribe or leave. *)
Spec == Init /\ [][Next]_vars /\ WF_vars(DispatcherStep) /\ WF_vars(Disconnect)
-----------------------------------------------------------------------------
(* Type correctness of Inner and of the threads. *)
UiTypeOK ==
    /\ store \in [Services -> [value : Values, public : BOOLEAN] \cup {Nil}]
    /\ lastWrite \in 0 .. MaxWrites
    /\ active \subseteq Ids /\ pending \subseteq Ids /\ entries \subseteq Ids
    /\ inbox \in Seq(Message) \cup {Nil}
    /\ connected \in BOOLEAN /\ handle \in BOOLEAN /\ unheard \subseteq Ids
    /\ service \in [Ids -> Services \cup {Nil}]
    /\ sub \in [Ids -> Points]
    /\ at \in {"upgrading", "fetching", "sleeping", "dispatching", "sending", "ended"}
    /\ hand \in Message \cup {Nil}
    /\ shown \in [Ids -> 0 .. MaxWrites]
    /\ cause \in [Ids -> {Nil, "dropped", "overtaken", "failed"}]

(* What the dispatcher has fetched and what it has not *)
Coming == (IF hand = Nil THEN <<>> ELSE <<hand>>) \o Queued(<<>>)

(* m is a value for the channel of id. *)
IsValue(m, id) == m.type \in {"Accepted", "Updated"} /\ m.id = id

ValuesComing(id) == {i \in DOMAIN Coming : IsValue(Coming[i], id)}

(* The component, the map and the kernel agree that id is followed. *)
Followed(id) == sub[id] = "held" /\ id \in entries /\ id \in active

Current(id) == store[service[id]].value

(* A component is never left with an old value, nor without the first:     *)
(* the last value on its way to a followed subscription, through inbox,    *)
(* dispatcher and channel, is the store's ("the current value plus every   *)
(* later update", README.md:141).  The map is filled before the kernel is  *)
(* asked because the dispatcher may fetch Accepted before subscribe_store  *)
(* goes on.  What the kernel could not queue for want of memory is lost to *)
(* the component until the next value.                                     *)
ShownIsCurrent ==
    \A id \in Ids : Followed(id) /\ at # "ended" /\ id \notin unheard =>
        \/ ValuesComing(id) = {} /\ Current(id) = shown[id]
        \/ \E last \in ValuesComing(id) :
              /\ \A i \in ValuesComing(id) : i <= last
              /\ Current(id) = Coming[last].value

(* The kernel serves no subscription the process has forgotten, but for    *)
(* three reasons: a ServiceClosed that was queued before the service was   *)
(* bound again (remove_service_subscriptions goes by name), the verdict on *)
(* a subscription that was dropped while it waited (lib.rs:124 ignores that*)
(* the kernel could not cancel it), and a command that failed: a subscribe *)
(* after the kernel had let it in (lib.rs:117), or an unsubscribe that was *)
(* never run (lib.rs:124 again).                                           *)
StraysAreExplained ==
    \A id \in active :
        id \in entries \/ cause[id] \in {"overtaken", "dropped", "failed"}

(* No entry stays in the map for a subscription that has ended: it is in   *)
(* the hands of the thread that made it, or the kernel has it, or the news *)
(* of its end is on its way.  Only who waited for a verdict before         *)
(* anything made an inbox is never told, and whose news was lost for want  *)
(* of memory.                                                              *)
NoDeadEntries ==
    \A id \in entries :
        \/ sub[id] \in {"registered", "failing", "removing"}
        \/ id \in active \cup pending
        \/ at = "ended" \/ id \in unheard
        \/ \E m \in Range(Coming) :
              \/ m.type \in {"Rejected", "Closed"} /\ m.id = id
              \/ m = ServiceClosed(service[id])

(* The value of a followed store gets to the component, unless the         *)
(* dispatcher has ended after a failed fetch or the kernel had no memory   *)
(* to queue the news.                                                      *)
ValuesReachTheComponent ==
    \A id \in Ids :
        Followed(id) ~> \/ ~Followed(id) \/ at = "ended" \/ id \in unheard
                        \/ shown[id] = Current(id)

Unused == connected /\ ~handle /\ \A id \in Ids : sub[id] # "removing"

(* When the last handle is gone the next message ends the thread and       *)
(* closes the connection; without one the thread keeps both for ever, for  *)
(* it sleeps with the Arc it upgraded.                                     *)
AbandonedConnectionsClose == (Unused /\ HasMessage) ~> ~Unused
===============================================================================
