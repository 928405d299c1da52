# Motherboard in TLA+

`motherboardm` is a Linux kernel module that carries calls, replies and retained values
("stores") between processes through one device, `/dev/services`. This directory holds a
TLA+ model of the bus, TLC configurations that check it on small instances, and proofs,
checked by TLAPS, that hold for every instance.

Line numbers refer to the repository at the commit the project was written for; the file
`PROJECT.json` maps every definition to the lines it models.

## 1. Inventory

### Components

| component | source | state | operations |
|---|---|---|---|
| command dispatch | `motherboardm/src/state.rs`, `motherboard_device.rs` | one `State` behind a spin lock | 12 commands, `open`, `cleanup` on the last close |
| inboxes, latches | `state/message_inbox.rs`, `fake_files/inbox_latch.rs` | per file: queue of messages, generation; made when first needed | `ensure`, `queue`, `notify`, `fetch`, `broadcast`, `poll_latch`, `close` |
| services | `services.rs` | name → provider, queue of calls not fetched | bind, queue a call, flush, close |
| reply tokens | `state/reply_tokens.rs` | counter, token → (client, service, request id) | `create`, `consume`, `remove_for_file` |
| stores | `services/store.rs` | named stores, anonymous stores with two counters, subscriptions, tokens of pending subscriptions, timestamps | create, update, subscribe, verdict, unsubscribe, clean-up |
| fake files, device glue | `fake_files*.rs`, `module.rs`, `utils.rs`, ... | none of the protocol | anonymous inodes, copying, logging |
| protocol types | `protocol/src/commands.rs` | none | postcard encoding |
| client library | `client/src/lib.rs` | two id counters | one wrapper per command, `fetch_async` |
| midl compiler | `midl/src/{tokenizer,parser}.rs`, `codegen/rust.rs` | none at run time | text to Rust |
| generated clients | templates in `codegen/rust.rs:272-545` | message cache, reply cache, fetch lock | `wait_for_reply`, `super_next_message`, `next_event` |
| generated servers | templates in `codegen/rust.rs:547-1023` | installed services, kinds of anonymous stores, spawned tasks | `install`, `serve`, dispatch, authorise, make stores |
| UI integration | `motherboard-ardos-ui-integration/src/lib.rs` | subscription map, dispatcher thread | subscribe, drop, dispatch |

### How they interact

Processes issue commands with an ioctl. Every command takes the lock of the one global
`State` once (`State::use_state`), so commands are atomic with respect to each other and
to `cleanup`; what interleaves is whole commands of different connections. The kernel
never calls a process. It puts a message into the inbox of a connection and trips the
latch that connection polls; the process then fetches. A connection is known by its
`FileId`, the address of its `struct file`, which the kernel uses again after the file
was freed.

A call waits in up to three places: the queue of the service, the inbox of the service,
then (as its token) in the table of pending replies; its answer waits in the inbox of the
caller. A subscription is pending in the token table until the service gives its verdict,
then active; both are counted in the anonymous store they are for.

### What is hard

* **Two queues, one latch.** `InboxNextMessage` looks at the inbox, then at a service's
  queue, then hands out a latch for the current generation. A call queued in between must
  trip the latch, and two queues must not reorder calls.
* **Tokens.** Single use, for one server, across closing, re-binding and wrapping.
* **Closing at any moment.** `cleanup` goes through seven tables; whatever it forgets
  later stands for another connection, and whomever it does not tell waits for ever.
* **Anonymous stores** are counted in eight places, with failures in between.
* **Partial failures.** No memory for an inbox, no descriptor for the result, an invalid
  descriptor in a reply, each after part of the command was done.
* **One inbox, many readers.** The tasks of a generated client sort one another's messages;
  any of them may be dropped at any await.
* **One reader, many tasks.** A generated server answers from tasks that outlive its loop, and
  the loop ends on the first error.
* **Two tables of one thing.** The UI integration keeps its own map of the subscriptions, changed
  before, after and without the kernel's, and removes entries by the name of a service.
* **Hash-map order.** Notices to many subscribers, the services of a closing connection
  and the service a fetch looks at come in no particular order.

`PROJECT.json` lists these hazards one by one, at the line where each bites, with the
properties that would catch it.

### What makes each component correct

| component | property |
|---|---|
| calls | `CallsAreConserved`, `CallsStayInOrder`, `NoStrandedCaller`, `CallsSettle` |
| tokens | `TokensMatchRequests`, `NoForgedReplies`, `TokensAreUnique` |
| inboxes, latches | `NoLostWakeup`, `ValuesArriveInOrder` |
| clean-up | `ServedByOpenFiles`, `ClosingIsTold` |
| stores | `SubscribersConverge`, `SubscriptionsAreAnchored`, `AnonymousCountsAreExact`, `VerdictsAreTold` |
| the bus as a whole | `CallsAreExecutedOnce` (it implements `Rpc`) |
| generated client | `NothingDiscarded`, `NobodyFetchesPastItsReply`, `EventsInOrder`, `CallsAreAnswered`, `EventsAreReturned` |
| generated server | `NoRequestForgotten`, `ToldStoresAreKnown`, `LaterRequestsStart` |
| UI | `ShownIsCurrent`, `StraysAreExplained`, `NoDeadEntries`, `ValuesReachTheComponent`, `AbandonedConnectionsClose` |

## 2. The modules

| module | what it is |
|---|---|
| `Common` | `Nil` |
| `Inboxes` | `MessageInbox` and `Inboxes` as operators on one inbox, with its generation and latch |
| `ReplyTokens` | both token tables (the code writes the same logic twice), with the wrapping `allocate_unique` |
| `Stores` | anonymous stores and their counters, subscriptions |
| `Motherboard` | the kernel: composes the three, one action per command |
| `MotherboardProperties` | what the bus promises |
| `Rpc` | the abstract life of a call; `MotherboardProperties` maps the bus to it |
| `TokenTable` | one token table alone, with a counter that wraps |
| `MidlClient` | a generated client: the tasks of one process that share an inbox |
| `MidlServer` | a generated server: installing, the serve loop, the tasks it spawns |
| `UiDispatcher` | the UI integration: subscribing threads, the shared map, the dispatcher thread |
| `MCMotherboard`, `MCTokenTable`, `MCMidlClient`, `MCMidlServer`, `MCUiDispatcher` | constants for TLC |
| `ReplyTokensProofs`, `TokenTableProofs` | proofs about tokens |
| `MotherboardTypes` | proof that every step keeps the types; lemmas on what commands add to the inboxes |
| `MotherboardProofs` | proofs about clean-up, stores and subscriptions, notices, the order of values, and latches |
| `RequestProofs` | proofs about calls: tokens, the life of a call and its refinement of `Rpc`, order, nobody stranded |
| `MidlClientProofs`, `MidlServerProofs`, `UiDispatcherProofs` | proofs about the three kinds of process |

`Inboxes`, `ReplyTokens` and `Stores` are composed by `Motherboard`. The three modules about
processes each start where `Motherboard` ends: they have the kernel as their one connection sees
it (an inbox, its tokens, its subscriptions), so that the process, not the bus, is what
interleaves. What they assume of the kernel (a token works once, an inbox keeps its order,
subscribers are told in the step that changes a store) is what the runs of `Motherboard` check.

### State and actions of `Motherboard`

| variable | code |
|---|---|
| `services` | `Services`: provider and queue, in one record because a queue exists exactly while the service is bound |
| `inboxes` | `Inboxes`: `Nil` when the hash map has no entry |
| `replyTokens`, `subTokens` | `ReplyTokens`, `StoreSubscriptionReplyTokens` |
| `stores`, `anonymous`, `nextAnonymous`, `nextTimestamp` | `StoreMap` |
| `subs` | `Subscriptions` |
| `open`, `origin`, `lastCall`, `lastSub` | which `struct file`s exist; how often an address was used; the id counters of `client/src/lib.rs` |
| `latch`, `held`, `awaiting`, `seen` | what a process knows: the latch it sleeps on, the requests it has to answer, the calls it waits for, the last value of each subscription |

Every command of `State::execute_command` is the action of that name
(`execute_function_call` is `FunctionCall`, and so on); `execute_store_subscribe` is two,
`SubscribePublic` and `SubscribePrivate`; `MotherboardDevice::open` is `Open` and
`State::cleanup` is `Close`. A command that is refused before it changed anything is a
stuttering step.

### Abstractions

* *Atomic commands.* Justified by the lock. What a command does outside it (copying its
  argument in, creating the descriptor of the result) touches no state of the bus; that
  creating the descriptor may fail after the command was executed is `LoseResult`.
* *Values.* A stored value is represented by the timestamp of the write that put it there,
  so two writes never look alike. Payloads, methods and the caller's credentials are left
  out, as are descriptors except for whether they can be cloned or installed.
* *Hash-map order.* A command that queues several messages does so in any order that
  respects the phases the code goes through one after the other (`Orders`, `Ranks`); a
  loop that stops at the first error has queued any subset of the rest (`Reached`).
* *Allocation failures.* `shortage` is the set of files whose inbox cannot be allocated
  during one command. `Vec` and `HashMap` growth elsewhere is not made to fail.
* *Width.* Tokens are u64 and wrap in `ReplyTokens`. `Motherboard` stops issuing before
  the counter wraps (the last conjunct of `FlushRequests` and of `Ask`): 2^64 requests do
  not happen while one connection stays open, and a stale token of the round before would
  otherwise be the same number. What holds across the wrap is the subject of `TokenTable`.
  Generations, ids and timestamps are natural numbers.
* *History.* `origin` and `client` in replies and pending replies record which opening of
  a connection made a call. No guard reads them.
* *Processes.* Servers may answer with any token any server was given, so tokens of
  others are tried as well; a daemon may bind, call and subscribe. Clients number calls
  from 1, as the client library does, and may use a subscription id again.
  A process fetches when it has no latch or its latch has tripped, as `fetch_async` does.

### State and actions of `MidlClient`

The messages of one connection reach a process mixed, and several tasks wait for different
ones. Whoever gets the fetch lock fetches for all, and keeps what is not its own in one of two
caches. The module starts where `Motherboard` ends: `inbox` is the connection's inbox, and
`Answer`, `Publish` and `Announce` are what the kernel puts into it.

| variable | code (`midl/src/codegen/rust.rs`) |
|---|---|
| `fetchLock` | `ClientState::fetch_lock`, holder first: tokio's mutex is fair |
| `replies`, `messages` | the two caches of `ClientState` |
| `at`, `hand` | where each task stands between two awaits, and the message it holds there |
| `request`, `nextId` | the request id of a call, the counter of `client/src/lib.rs` |
| `sent`, `delivered`, `dropped` | history, read by no guard of a task |

A *caller* runs a generated function with `wait_for_reply` (`LookForReply`, `LookAgain`,
`Fetch`, `SortForCall`); a *watcher* runs `next_event` of its subscription (`Scan`, then the
steps of `super_next_message`, then `Decide`); a *drainer* runs `next_message`
(`LookForMessage`, `LookForMessageAgain`, `Fetch`, `SortForMessage`). A step goes from one await
to the next. `Abandon` drops the future of a task at any await, or is a fetch that fails: the
message in its hand is gone, and so is its guard or its place in the queue for the lock.
Subscribing is left out; an event has an owner, a number and whether it decodes.

### State and actions of `MidlServer`

| variable | code (`midl/src/codegen/rust.rs`) |
|---|---|
| `inbox`, `issued`, `good`, `stores` | the kernel: requests not fetched, tokens issued and still usable, anonymous stores |
| `setup` | how far `install_<service>` got; the fields `Option<Installed...>` of `ServerRuntime` |
| `at`, `hand` | where `serve` is, and its `message` |
| `kinds` | `anonymous_kinds` of each service |
| `task`, `made` | the spawned tasks, by the token they answer; the stores a handler has made |
| `told`, `refused`, `unanswered` | history: which stores clients know of, who was refused, why a request is in nobody's hands |

`Install` is `install_<service>` in its two steps (bind; then stores and the field, or a failure
that leaves the service bound). `Fetch` and `Dispatch` are one turn of `serve`; `DispatchCall` and
`DispatchSubscription` are its two arms with every `continue` and `?`. `CreateStore` and
`RecordKind` are the two halves of a context's `create_<function>_store`, between which the loop
runs; `FinishCall` is the end of `dispatch_trait_request`, `Judge` that of
`dispatch_anonymous_subscription`. A context's `create_<function>_store` panics when it has an
error from the kernel (the `.expect` at `codegen/rust.rs:663`), also one that hides a store that was
made: that ends the handler's task without a reply, as an undeclared error does, and is that outcome
of `FinishCall` ("handler failed"). `Request` and `Leave` are clients, each with one request.

### State and actions of `UiDispatcher`

| variable | code (`motherboard-ardos-ui-integration/src/lib.rs`) |
|---|---|
| `store`, `lastWrite`, `active`, `pending`, `inbox`, `connected` | the kernel as this connection sees it, with one store for each service and writes as values |
| `unheard` | history: the ids whose last news the kernel could not queue |
| `handle` | some `MotherboardUi` exists |
| `entries`, `service` | `Inner::subscriptions`: its keys, and what each was used for |
| `sub` | where `subscribe_store`, or the closure that unsubscribes, is for each id |
| `at`, `hand` | the dispatcher thread, and the message it has fetched |
| `shown` | the last value sent into the channel of each id |
| `cause` | history: what separated an entry from the kernel's subscription ("overtaken" by a late `ServiceClosed`, "dropped" while it waited for its verdict, its command "failed") |

`SubscribeStore` has the steps of `subscribe_store` (insert into the map; the command; the removal
when the command failed), `Unsubscribe` those of the closure (the command, whose error is ignored;
the removal). The thread is `Upgrade`, `Fetch`, `Wake`, `Dispatch`, `Send`: a step ends where the
lock of the map is released or a command returns. A command succeeds (`Ask`) or has an error
(`AskInVain`), and an error does not mean that the kernel did nothing: `StoreSubscribe` changes its
tables first and takes nothing back, and the descriptor of the result is made when the command has
run. With `CommandsMayFail` that happens, the connection's inbox may find no memory when something
is queued before the first fetch has made it, and a loop over subscribers may stop at another
connection's inbox; `FetchMayFail` is the same for `Fetch` and for the poll (`WaitFails`).
`Referenced` is the strong count of the `Arc`.
A message names its subscription by the id alone, because an id is never used twice.

### `Rpc`, and how the bus implements it

`Rpc` has one variable, how far each call is: unmade, queued, given to one server, answered, over.
It has no inboxes and no tokens. `MotherboardProperties` computes that phase from where the call
is in the state of the bus (`Life`: a queue of a service, the table of tokens, an inbox; the
phase `doubled`, which `Rpc` does not have, if it is in two), and `CallsAreExecutedOnce` says
that every step of the bus is a step of `Rpc` or none. `CallsAreConserved` looks at one state and
cannot see a call that comes back, or that is given to a second server after the first; this can.

## 3. The runs

| run | scenario | bounds |
|---|---|---|
| `calls` | two clients, one server, any of them may close at any moment | 2 calls each |
| `rebound_service` | two daemons bind the same name in turn and try each other's tokens, addresses are used again; liveness | 2 openings, 1 call each |
| `named_stores` | public and private store, ids used again, late verdicts | 3 subscribes, 3 writes |
| `anonymous_stores` | two clients and the owner itself; tokens of subscription requests | 1 subscribe each, 2 writes |
| `failing` | no memory, no descriptors, invalid descriptors | 2 calls, 1 subscribe, 2 writes, 1 anonymous store |
| `tokens` | a counter that wraps at 5, batches up to 3 | two files |
| `client` | two callers (one may give up), a subscription and a drainer on one generated client; liveness | 2 calls, 2 events (the second may be undecodable), 1 other message, 3 arrivals in all |
| `server` | two services, good, undecodable and unknown requests, clients that leave, stores made and asked for; liveness | 3 requests, 1 anonymous store |
| `ui` | one service, bound, closed and bound again, public or private; commands and fetches that fail; liveness | 2 subscribes, 2 writes (a bind counts as one) |
| `waits_for_others` | two callers of one client; section 4 | 2 calls |
| `starved_service`, `wrong_client` | section 4 | 1 call |

`Clients` and `Daemons` say which connections may call and subscribe, and which may bind;
`anonymous_stores` lets the owner subscribe to its own store, because the code has
branches for it. The constants `AllocMayFail`, `FdsMayRunOut` and `BadReplyFds` switch the
failures on.

*Why the bounds suffice.* Two calls make a flush that gives several tokens at once (the
first is returned, the second goes through the inbox); a call made while an older one of the
same client waits in the inbox, behind one of another client, is the shortest history in which
the two queues could reorder. Two
clients are needed for a subscriber that is told while another leaves, and a second
opening for an address that is used again; three subscribe commands use an id again after it
was withdrawn with values still on their way. The bounds are in the guards: `MaxOpens`,
`MaxCalls`, `MaxSubscribes`, `MaxWrites`, `MaxAnonymous`, and `U64Max`. Because of them
the model really stops, so deadlock is not checked, except in `tokens`.

In `client` three arrivals fill both caches and leave one message in the inbox: enough for a
task to fetch what two others wait for, and for an event to be cached before and behind a
message nobody reads. The `MaxArrivals` bound is on the kernel's side only. A second watcher would
break `EventsInOrder` and `EventsAreReturned`, as the hazards at `codegen/rust.rs:391` and `:500`
say; nothing in the repository promises either for two.

In `server` three requests are one that makes a store, one that asks for it before or after its
kind is recorded, and one that ends the loop while the others are in tasks. In `ui` two writes
are what it takes to bind a service, close it and bind it again with the notice still in the
inbox, or to follow one store through two values; two subscriptions are the one made before the
notice and the one made after. All of these happen: each exception named in a property (the five
ways in `Unheeded`, the three of `cause`, a lock that stays busy, a watcher that spins) was
taken out once, and so was `unheard`, and TLC found the state it is there for.

*Symmetry.* `calls` and `anonymous_stores` use the symmetry of the two clients. Neither
checks liveness.

*Fairness.* `FairSpec` assumes of every connection that it goes on fetching, and that who
holds a request answers it: the serve loop generated by midl fetches for ever and spawns a
handler for each request, and `fetch_async` fetches again when the latch trips. Both are
weak: the commands stay enabled until they are taken. No fairness is assumed of binding,
calling, subscribing or closing. A fetch that blocks on an untripped latch is disabled,
so `CallsSettle` fails if a wake-up is missing, which is what its mutant shows.
`FairSpec` of `MidlClient` assumes that the executor polls every task that can go on, and
nothing about who calls or answers: `CallsAreAnswered` therefore speaks of calls whose reply was
sent, and `EventsAreReturned` of events that were. `Spec` of `MidlServer` is fair to the serve loop
alone: handlers and judges may take for ever, which is the point of `LaterRequestsStart`.
`Spec` of `UiDispatcher` is fair to the dispatcher thread, which waits for nothing but its latch
and a mutex never held across a wait (that a poll fails, `WaitFails`, is outside that fairness),
and to the drop of the last `Arc`, which happens in the
thread that gave it up. Nobody must write, subscribe or leave.

*Mutants.* Beside the operators that matter stands, commented as such, a form with a
mistake a programmer could make (a notice left out, a token kept, a counter not
decremented); replacing one by the other makes the corresponding property fail.

## 4. Where the code and its documents differ

* **`starved_service`.** `execute_inbox_next_message` (`state.rs:270`) looks at *one*
  service of the connection. If that has no calls, the answer is `WouldBlock`, with a
  latch for a generation that already counts the calls of the others: they wait until
  something else trips it. `README.md:86` invites servers with several services.
* **`wrong_client`.** `cleanup` (`state.rs:804`) removes the tokens of a closed client but
  not its calls in the queues. A later flush and reply recreate an inbox for the dead
  `FileId`, and the connection that gets that address fetches a reply it never asked for.
* **`waits_for_others`.** A generated call "waits only for its matching reply"
  (`midl/docs/rust-mapping.md:213`), but `wait_for_reply` (`codegen/rust.rs:527`) takes the fetch
  lock first, and its holder keeps it until its *own* reply arrives. The reply to a second call,
  fetched by the holder, lies in the cache while its caller waits for the first call, for ever
  if that is never answered. `CallsAreAnswered` says that this is the only way, apart from a
  reply that a dropped future had in hand: the lock is always passed on otherwise.

Other behaviours are at odds with a document, or documented too loosely to argue about, and are
exceptions in properties instead of findings:

* *No inbox yet.* A client that called or asked for a verdict before its first fetch has no inbox
  and is not told that the service closed: `NoStrandedCaller`, `CallsSettle` and, for a verdict on
  a named store, `ClosingIsTold` speak of clients with one; `NoDeadEntries` excepts `unheard`.
* *No memory.* What the kernel cannot queue is lost after its tables were changed.
  The theorems about the bus have that as a hypothesis (section 5); the properties of the UI integration
  except the ids in `unheard`: `ShownIsCurrent`, `NoDeadEntries`, `ValuesReachTheComponent`.
* *Live subscriptions the process has forgotten* (`StraysAreExplained`, three causes).
  "overtaken": `remove_service_subscriptions` goes by the name of the service, and the notice may
  be older than the subscription. "dropped": `StoreUnsubscribe` does not find a subscription that
  waits for its verdict, and a later verdict makes one. "failed": `subscribe_store` forgets the id
  after any error (`lib.rs:117`), although the kernel may have subscribed it before the error; and
  `unsubscribe` may not have run (`lib.rs:124` ignores its error).
* *Messages that are discarded.* Generated clients "must never discard messages"
  (`midl/docs/rust-mapping.md:207`); `NothingDiscarded` excepts what an event that does not decode
  takes with it (`codegen/rust.rs:374`), and what a dropped future or a failed fetch has in hand.
* *Requests without an answer.* The runtime "sends the appropriate success or error replies"
  (`midl/docs/rust-mapping.md:250`); `NoRequestForgotten` excepts five ways in which a client that
  still waits gets none: the service is not installed, the method unknown, the request
  undecodable, the store a private named one, or the handler failed without a declared error.

The remaining oddities met while modelling are in `PROJECT.json` under `hazards`, each
with its line.

## 5. What is proved

Checked by TLAPS, for every value of the constants:

| theorem | property | says |
|---|---|---|
| `TokenTableProofs!TableTypesCorrect` | `TableTypeOK` | types of one token table and its histories |
| `TokenTableProofs!TableCorrect` | `TokensAreUnique` | a table whose counter wraps never has two entries with one token |
| `MotherboardTypes!TypesCorrect` | `TypeOK` | types |
| `MotherboardProofs!NothingOutlivesItsConnection` | `ServedByOpenFiles` | `cleanup` forgets no table |
| `MotherboardProofs!AnonymousStoresAreCountedExactly` | `AnonymousCountsAreExact` | the two counters of an anonymous store are the numbers they stand for |
| `MotherboardProofs!SubscriptionsHangOnLiveStores` | `SubscriptionsAreAnchored` | no subscription, and no request for one, without its store and the store's service |
| `MotherboardProofs!NoVerdictIsLost` (1) | `VerdictsAreTold` | a request for a subscription does not vanish without a word to the client |
| `MotherboardProofs!NobodyIsLeftInTheDark` (1) | `ClosingIsTold` | whoever a closing connection leaves behind is told in the same step |
| `MotherboardProofs!ValuesNeverGoBack` | `ValuesArriveInOrder` | the values on their way to a subscription are in the order they were written |
| `MotherboardProofs!SubscribersEndWithTheCurrentValue` (2) | `SubscribersConverge` | the last value on its way, or the last one fetched, is the store's |
| `MotherboardProofs!SleepersHaveNothingToDo` (3) | `NoLostWakeup` | who sleeps on an untripped latch has neither a message nor a call to fetch |
| `RequestProofs!TokensStandForTheirRequests` | `TokensMatchRequests` | a token means the request it came with, or nothing |
| `RequestProofs!OnlyTheAddresseeAnswers` | `NoForgedReplies` | only the server that was given a call answers it |
| `RequestProofs!ACallHasOneLife` | `CallsAreConserved` | a call is in a queue, in the token table or in an inbox, once, and not in two of them |
| `RequestProofs!TheBusImplementsRpc` | `CallsAreExecutedOnce` | every step of the bus is a step of `Rpc` or none |
| `RequestProofs!CallsKeepTheirOrder` | `CallsStayInOrder` | the calls of one caller reach a service in the order they were made, through both queues |
| `RequestProofs!NoCallerIsStranded` (4) | `NoStrandedCaller` | a caller that waits has something to wait for |
| `MidlClientProofs!ClientTypesCorrect` | `ClientTypeOK` | types, and that the cache of messages holds no reply |
| `MidlClientProofs!NobodyOverlooksItsReply` | `NobodyFetchesPastItsReply` | whoever fetches holds the lock, and no caller fetches past its reply |
| `MidlClientProofs!NoMessageIsLost` | `NothingDiscarded` | the router neither loses nor doubles a message |
| `MidlClientProofs!EventsComeInOrder` (5) | `EventsInOrder` | the events of a subscription are returned in the order they were published |
| `MidlServerProofs!ServerTypesCorrect` | `ServerTypeOK` | types, and that `serve` has a request exactly while it dispatches |
| `MidlServerProofs!NothingForgotten` | `NoRequestForgotten` | a request is in somebody's hands, or left in one of five ways |
| `MidlServerProofs!ToldStoresStayKnown` | `ToldStoresAreKnown` | a store a client was told of is never refused as unknown |
| `UiDispatcherProofs!UiTypesCorrect` | `UiTypeOK` | types, and that the kernel knows only what was asked for |
| `UiDispatcherProofs!StraysHaveACause` | `StraysAreExplained` | the process forgets a live subscription in the named ways only |
| `UiDispatcherProofs!NoEntryIsForgotten` | `NoDeadEntries` | an entry of the map that has lost its subscription is about to be removed |
| `UiDispatcherProofs!ComponentsAreCurrent` | `ShownIsCurrent` | a component shows the value of the store, or it is on its way |

Five kinds of hypothesis, each because the code does otherwise without it: (1) `AllocMayFail =
FALSE`: the kernel ignores or returns the error of a notice it cannot queue, after it has changed
its tables. (2) `AllocMayFail = FALSE` and `FdsMayRunOut = FALSE`: a value is lost with the inbox
it was for, or with the result of the command that fetched it (`LoseResult`). (3) No connection
provides two services, stated as a condition on the state: `starved_service` (section 4) is what
happens otherwise. (4) `AllocMayFail`, `FdsMayRunOut` and `BadReplyFds` are `FALSE`: requests are
lost when a flush of several finds no memory for the server's inbox, when the result of a fetch
gets no descriptor, and when the descriptors of a reply are refused after its token was consumed.
(5) The process has at most one subscription: two push each other's events back behind later ones.
In `calls` or `named_stores` with one of the switches of (1), (2) or (4) on, TLC finds a violation
of the property in question; none of these hypotheses is there for the prover's sake. The run
`failing` switches all failures on and checks the properties that hold with them.

*Assumptions.* `U64MaxAssumption` (a counter has at least one value), `MotherboardAssumption`
(files and service names are finite sets, the switches are Booleans, the bounds are natural
numbers), `NilAssumption` (`Nil` is none of the values it stands in for; `MidlClient`,
`MidlServer` and `UiDispatcher` have one each; TLC's model values are such),
`TokenTableAssumption`, `ClientBounds`, `DistinctTasks` (a task is of one kind),
`ServerAssumption` and `UiAssumption`. Beyond these and the numbered hypotheses no relation
between the constants is assumed: any number of files, services, stores, calls, with each failure
on or off.

*Tokens.* `TableInv` says that no two entries of the table share a token and that counter and
tokens are in `1 .. U64Max`. The lemma `AllocateGivesFreshTokens` (whatever `allocate_unique`
hands out is free and pairwise different, also round the end of u64) does the work and is
cited by all proofs about flushes and subscription requests.

*Types.* `TypeOK` is not inductive: the clean-up counts entries with `Cardinality`, so the
tables must be finite (`Finite`), and `SubscribePrivate` sends to the provider of a service
without looking whether it is bound, which is so only because a store exists only while its
service is bound (`StoresAreProvided`). `TypeInv` is the three together.

*Clean-up.* `ServedByOpenFiles` does not say that who owns an anonymous store provides the
service of the store, but `cleanup` removes anonymous stores by service and not by owner: a
store of a closed owner would survive if the two could differ. `ServedInv` has that as
`OwnersProvide`, and is inductive relative to `TypeInv`.

*Stores and subscriptions.* That the store of a subscription exists is not inductive: an anonymous
store goes when both its counters reach 0, so they must be right. `StoreInv` says so
(`CountsAreExact`) together with what makes a verdict count one request down and not two
(`RequestsAreUnique`: a token is that of one request), a new store begin with nobody waiting for
it (`NewIdsAreFree`), and clean-up find every request (`ProvidersAreAsked`: who is asked for a
verdict provides the store's service). `SubscriptionsHangOnLiveStores` and `NoVerdictIsLost`
follow from it: the store a verdict is for is there when it comes, so of the errors
`execute_store_subscription_reply` may have after the token is used up only the id used twice
remains. `NobodyIsLeftInTheDark` goes through the notices of `cleanup`, in any order, and shows
that what is posted to a connection that stays is in its inbox after the step.

*Values.* `ValuesArriveInOrder` does not speak of what is still to be sent. `ValuesInv` adds that
every value in an inbox is from the past and none is newer than the store (`ValuesArePast`,
`StoresArePast`). The argument is made once, over an abstraction of all commands: `ValueStep` says
that a step takes messages from the front of an inbox and appends, to any of them, values that are
current after the step, and each command is shown to be such a step. Convergence has one half
more: who subscribes is sent the value, and every write tells all subscribers, so `LastIs` holds;
but messages name their subscription by its id only, and so `ConvergeInv` needs that a connection
has no two subscriptions with one id (`OneSubscriptionPerId`).

*Latches.* A latch trips when the generation of its inbox has moved. `SleepInv` says that a latch
belongs to an inbox that is there, that it is never ahead of the inbox's generation, and that its
owner has nothing to do while the two are equal. The second part is what a call queued between the
look and the sleep needs: the generation only goes forward, so it cannot come to be equal again.

*Requests.* `MatchInv` adds to `TokensMatchRequests` that every token in a table *and every
token a process still remembers*, answered or not, is below the table's counter
(`CallTokensBelow`, `SubTokensBelow`). Without it a token issued now could be one that a server
remembers from a request answered long ago. New tokens start at the counter (`TokensGoUp`,
which needs that the counter does not wrap, see section 2), so the old ones are never used
again (`CallsIssued`, `SubsIssued`); commands that issue none only shrink the tables and pass
on no request (`NothingIssued`). `OnlyTheAddresseeAnswers` follows: the only step that takes an
entry while nobody closes is the reply, it consumes an entry addressed to the file that
replies, and by `MatchInv` the file that knows the token is the file it was issued to.

*The life of a call.* `LifeInv` says where a call is: queued, given, answered (`CallOf` names it
by client, opening and number), in each place once, in one place only, and only if it was made.
What the steps that concern calls do to the three places is stated once (`FunctionCallEffect`,
`FlushEffect`, `FunctionCallReplyEffect`; after all others calls only end, `OnlyEnds`).
`TheBusImplementsRpc` sorts the steps into `LifeSteps`: calls end, one is made, many are given to
one server, one is answered. `LifeOf` says that `Life` is the place `LifeInv` speaks of, and a
step of each kind is then a step of `Rpc` or a stutter. That the server which answers is the one
the call was given to is `MatchInv`; that it is one of the servers `Rpc` knows,
`ServersAreDaemons`.

*The order of calls* is that of a line: what a server holds comes before what is in its inbox, that
before the queue of the service, each in its order (`OrderInv`). A flush that took the queue while
older calls are in the inbox would break it; `FlushRequests` finds the inbox empty.

*Waiting.* `NoStrandedCaller` looks at one state. `WaitInv` adds that the request a server has is
one of the service the caller called (a closing server's clients are told by the name of the
service) and that a caller's inbox stays as long as its connection (only who has one is told).

*The client.* `NobodyFetchesPastItsReply` alone is not inductive: another task could cache the
reply of a caller that sits in the fetch. `RouterInv` adds `FetcherHoldsLock` (who is in the fetch
or sorts what it fetched is at the head of the queue for the lock). So two tasks are never there
at once, the cache of replies grows only by the holder's own hand, and what the holder caches is
never what it waits for. Giving up in the middle of the queue leaves its head alone
(`GiveUpKeepsOthers`). `NothingDiscarded` counts places; its invariant `ContentInv` says that a
message is sent exactly if it is at one of the `Spots`, at one only (`Sorted`), and there once
(`NoneTwice`). For `EventsInOrder` the events of the subscription `w` stand in line (`Line`):
returned, in w's hand, in the cache, in the hand of a caller, in the inbox. `Order(w)` says that
the line rises and that nothing of w is in the cache while w itself fetches; every step moves an
event forward past stages that are empty (`MovesOrder`) or takes something out (`ShrinksOrder`).

*The server.* `NoRequestForgotten` is inductive together with the types and `HandInv`; the step
that matters is `Dispatch`, which must put the request it lets go into a task or give a reason.
`KnownInv` carries `ToldStoresAreKnown`: what a handler has made is recorded for the service of its
task (`MadeIsKnown`), what a client was told was made (`ToldIsKnown`), and a service that has a
task stays installed until the process exits, when there is no loop left to refuse anybody.

*The UI.* `StraysInv` extends the property to pending subscriptions, which a verdict may turn into
active ones, and says of every notice of an end, in the inbox or in the dispatcher's hand, that
its subscription is over in the kernel (`EndsAreTrue`). That an end, once true, stays true needs
that ids are not used again (`GoneStays`). With it, the only message that can remove the entry of
a live subscription is a `ServiceClosed`, which is recorded as the cause. A command is
followed to its end (`AskResult`): whatever error it had, what it left in the kernel's tables has the
cause "failed". No hypothesis about failures is needed here: the ids whose news was lost are
in `unheard`, and the properties name them. `EntriesInv` and
`CurrentInv` add to `NoDeadEntries` and `ShownIsCurrent` only that the thread's hand is empty
between two messages; what they rest on is that what is on its way (`Coming`) loses its first
message only to the hand that acts on it.

*Only model-checked.* Liveness (`CallsSettle`, `CallsAreAnswered`, `EventsAreReturned`,
`LaterRequestsStart`, `ValuesReachTheComponent`, `AbandonedConnectionsClose`) is out of the
prover's reach. Every invariant and every action property that a passing run checks is stated by a
theorem, with the hypotheses above. The runs check these properties where the hypotheses hold.
What an operator defined by recursion over data computes is not proved either; the modules avoid
such operators.

## 6. What is not modelled

* Encoding, logging, allocation adapters, the anonymous-inode plumbing, the checks of
  store names: they carry no protocol state.
* The midl tokenizer and parser: pure functions of a text.
* Of the generated clients: subscribe and unsubscribe, which pass a command on, and the race of two
  tasks in `client_state` (the loser's connection is closed unused).
* Of the generated servers: the API for loops written by hand (`spawn_request`,
  `authorize_anonymous_subscription`, with a second table of authorizers) and updates of stores.
* Of the UI integration: replies to calls that components make through the same connection (the
  dispatcher throws them away), and the hook `use_motherboard_store` above `subscribe_store`.
* The examples and the proof-of-concept programs, which use the above.
* A latch whose descriptor outlives its connection; a process that keeps its own
  connection alive through a descriptor inside a message.
* Allocation failures other than that of an inbox.

## 7. Plan

1. **Replicated values**, an abstract specification that `Motherboard` implements: a subscriber's
   sequence of values is a subsequence of the store's history that ends with the last. The safety half is
   `ValuesNeverGoBack` and `SubscribersEndWithTheCurrentValue`, the refinement would join them.
2. **What the failures leave**: the strongest forms of `VerdictsAreTold`, `ClosingIsTold` and
   `NoStrandedCaller` that hold with allocation failures on, as named exceptions instead of a hypothesis.
3. **The process and the bus together**: that the inbox, tokens and subscriptions which the three
   process modules assume are those of one connection of `Motherboard`.
4. **Two subscriptions of one client**, once the code says what `next_event` promises for them.
