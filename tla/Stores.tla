-------------------------------- MODULE Stores --------------------------------
(***************************************************************************)
(* The retained values of services/store.rs and who follows them, as       *)
(* operators on one store or on the set of subscriptions.                  *)
(*                                                                         *)
(* A named store belongs to a service; an anonymous store is known by the  *)
(* id the kernel gave it and lives as long as somebody may still use it.   *)
(* A stored value is represented by the timestamp of the write that put it *)
(* there (StoreMap::allocate_timestamp), so that different writes always   *)
(* have different values.                                                  *)
(***************************************************************************)
EXTENDS Common, Naturals

(* StoreSubscriptionTarget *)
Named(service, store) == [service |-> service, store |-> store]
Anonymous(id) == [anonymous |-> id]
IsAnonymous(target) == "anonymous" \in DOMAIN target

NamedTargets(services, stores) == [service : services, store : stores]
AnonymousTargets(ids) == [anonymous : ids]

(* Store, without the path it is kept under *)
NamedStore == [value : Nat, public : BOOLEAN]

(* AnonymousStore, without the id it is kept under *)
AnonymousStore(services, files) ==
    [service : services, owner : files, value : Nat,
     pending : Nat, accepted : Nat, hasEverHadSubscription : BOOLEAN]

(* StoreMap::create_anonymous *)
NewAnonymousStore(service, owner, value) ==
    [service |-> service, owner |-> owner, value |-> value,
     pending |-> 0, accepted |-> 0, hasEverHadSubscription |-> FALSE]

(* usize::saturating_sub *)
SaturatingSub(m, n) == IF m > n THEN m - n ELSE 0

(* increment_anonymous_pending *)
IncrementPending(store) == [store EXCEPT !.pending = @ + 1]

(* Mutated form of AcceptPending: the request is still counted. *)
AcceptWithoutDecrement(store) ==
    [store EXCEPT !.accepted = @ + 1, !.hasEverHadSubscription = TRUE]

(* accept_anonymous_pending: one pending request becomes a subscription *)
AcceptPending(store) ==
    [store EXCEPT !.pending = SaturatingSub(@, 1),
                  !.accepted = @ + 1,
                  !.hasEverHadSubscription = TRUE]

(* Mutated form of CleanupIfUnused: requests that wait do not count. *)
CleanupIfUnaccepted(store) ==
    IF store.hasEverHadSubscription /\ store.accepted = 0 THEN Nil ELSE store

(* cleanup_anonymous_if_unused: a store that has had a subscription goes   *)
(* with its last request and its last subscription                         *)
CleanupIfUnused(store) ==
    IF store.hasEverHadSubscription /\ store.pending = 0 /\ store.accepted = 0
    THEN Nil ELSE store

(* decrement_anonymous_pending, p times, and decrement_anonymous_accepted, *)
(* a times, each followed by the clean-up, on an entry of the map          *)
Decrement(store, p, a) ==
    IF store = Nil \/ (p = 0 /\ a = 0) THEN store
    ELSE CleanupIfUnused([store EXCEPT !.pending = SaturatingSub(@, p),
                                       !.accepted = SaturatingSub(@, a)])

(* Subscriptions: a set of [file, id, target]; (file, id) is the map's key *)
Subscribed(subs, file, id) == \E s \in subs : s.file = file /\ s.id = id

(* subscribers_for_store and subscribers_for_anonymous_store *)
SubscribersOf(subs, target) == {s \in subs : s.target = target}

(* delete_owned *)
OwnSubscription(subs, file, id) == {s \in subs : s.file = file /\ s.id = id}

===============================================================================
