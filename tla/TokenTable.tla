------------------------------ MODULE TokenTable ------------------------------
(***************************************************************************)
(* One table of tokens on its own, ReplyTokens or                          *)
(* StoreSubscriptionReplyTokens, with a u64 small enough for the counter   *)
(* to wrap: the part of their life Motherboard leaves out.                 *)
(***************************************************************************)
EXTENDS ReplyTokens

CONSTANTS
    Files,      \* FileIds
    MaxBatch    \* requests one flush gives tokens to

ASSUME TokenTableAssumption == IsFiniteSet(Files) /\ MaxBatch \in Nat

VARIABLE table

Entry == [token : Tokens, client : Files, service : Files]

Init == table = NoTokens

(* create for the calls of the clients, in turn, as                        *)
(* flush_requests_as_inbox_messages does                                   *)
Issue(clients, service) ==
    \E ts \in Allocate(table, Len(clients)) :
        table' = Create(table, ts,
            {[token |-> ts[i], client |-> clients[i], service |-> service] :
                i \in 1 .. Len(clients)})

(* consume *)
Consume(token, file) ==
    /\ Consumable(table, token, file) # {}
    /\ table' = Discard(table, Consumable(table, token, file))

(* remove_for_file *)
RemoveForFile(file) == table' = Discard(table, EntriesOf(table, file))

Next ==
    \E file \in Files :
        \/ \E n \in 1 .. MaxBatch : \E clients \in [1 .. n -> Files] : Issue(clients, file)
        \/ \E token \in Tokens : Consume(token, file)
        \/ RemoveForFile(file)

Spec == Init /\ [][Next]_table

-------------------------------------------------------------------------------
(* The counter never stands at 0 and every entry has a token from 1 to     *)
(* u64::MAX: allocate_unique skips 0 when it wraps.                        *)
TableTypeOK == table \in [next : Tokens, pending : SUBSET Entry]

(* A token never stands for two requests, whatever was consumed or removed *)
(* in between and however often the counter went round: a reply cannot     *)
(* reach two clients, and an entry is never overwritten in the map.        *)
TokensAreUnique ==
    \A p, q \in table.pending : p.token = q.token => p = q
===============================================================================
