----------------------------- MODULE ReplyTokens -----------------------------
(***************************************************************************)
(* The kernel-issued tokens: ReplyTokens (state/reply_tokens.rs), one per  *)
(* delivered function call, and StoreSubscriptionReplyTokens               *)
(* (services/store.rs), one per subscription request that waits for a      *)
(* verdict.  Both are a u64 counter and a map from tokens to what they     *)
(* stand for, written twice in the code with the same logic.  A table is   *)
(*     [next |-> the next token to try, pending |-> a set of entries]      *)
(* an entry being a record with at least the fields token, client and      *)
(* service; the map's keys are the entries' tokens.                        *)
(***************************************************************************)
EXTENDS Integers, Sequences, FiniteSets

CONSTANT U64Max   \* u64::MAX: the counters wrap after it

ASSUME U64MaxAssumption == U64Max \in Nat \ {0}

Tokens == 1 .. U64Max

NoTokens == [next |-> 1, pending |-> {}]

InUse(table) == {p.token : p \in table.pending}

(* Mutated form of Successor: 0 is not skipped. *)
SuccessorThroughZero(n) == (n + 1) % (U64Max + 1)

(* next.wrapping_add(1), and 0 is skipped *)
Successor(n) == IF n = U64Max THEN 1 ELSE n + 1

(* How many wrapping increments lead from n to t. *)
Distance(n, t) == IF t >= n THEN t - n ELSE t - n + U64Max

(* How many of the tokens the loop tries before t are free. *)
Rank(table, free, t) ==
    Cardinality({u \in free : Distance(table.next, u) < Distance(table.next, t)})

(* Mutated form of Allocate: the counter is taken as it is, whether or not *)
(* the token is still in the map.                                          *)
AllocateBlindly(table, count) ==
    {[i \in 1 .. count |->
        CHOOSE t \in Tokens : Distance(table.next, t) = (i - 1) % U64Max]}

(* The sequence of tokens that count runs of allocate_unique hand out: the *)
(* loop tries the tokens from next on, round the end of u64, and takes     *)
(* those that are not in the map, among them the ones it has just put      *)
(* there.  There is none, for the loop does not end, when too few are free.*)
Allocate(table, count) ==
    LET free == Tokens \ InUse(table)
    IN  IF \A i \in 1 .. count : \E t \in free : Rank(table, free, t) = i - 1
        THEN {[i \in 1 .. count |-> CHOOSE t \in free : Rank(table, free, t) = i - 1]}
        ELSE {}

(* Mutated form of Create: the counter stays where it is. *)
CreateInPlace(table, ts, entries) ==
    [table EXCEPT !.pending = @ \union entries]

(* The table after the entries were created with the tokens ts. *)
Create(table, ts, entries) ==
    [next    |-> Successor(ts[Len(ts)]),
     pending |-> table.pending \union entries]

(* Mutated form of Consumable: any file that knows a token may use it. *)
ConsumableByAnyone(table, token, file) ==
    {p \in table.pending : p.token = token}

(* consume finds the token and the file replying is the one it was issued  *)
(* to; otherwise the reply is rejected and nothing changes.                *)
Consumable(table, token, file) ==
    {p \in table.pending : p.token = token /\ p.service = file}

(* Mutated form of Discard: the token stays valid after its first use. *)
KeepAll(table, entries) == table

(* The table without the given entries: the end of consume, and the retain *)
(* of remove_for_file.                                                     *)
Discard(table, entries) == [table EXCEPT !.pending = @ \ entries]

(* Mutated form of EntriesOf: what the file had to answer is forgotten. *)
EntriesMadeBy(table, file) == {p \in table.pending : p.client = file}

(* What remove_for_file removes when a connection closes. *)
EntriesOf(table, file) ==
    {p \in table.pending : p.client = file \/ p.service = file}

==============================================================================
