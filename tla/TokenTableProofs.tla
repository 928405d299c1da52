--------------------------- MODULE TokenTableProofs ---------------------------
(***************************************************************************)
(* TokenTable for every U64Max, every set of files and every batch.        *)
(***************************************************************************)
EXTENDS TokenTable, ReplyTokensProofs

TableInv == TableTypeOK /\ TokensAreUnique

(* New entries, each with a token of its own that allocate_unique gave,    *)
(* keep the table well-formed and its tokens unique.                       *)
LEMMA CreateKeepsInv ==
    ASSUME TableInv,
           NEW n \in Nat, n > 0, NEW ts \in Allocate(table, n),
           NEW new \in SUBSET Entry,
           \A p \in new : \E i \in 1 .. n : p.token = ts[i],
           \A p, q \in new : p.token = q.token => p = q,
           table' = Create(table, ts, new)
    PROVE  TableInv'
<1>1. /\ ts \in [1 .. n -> Tokens \ InUse(table)]
      /\ Len(ts) = n
  BY AllocateGivesFreshTokens DEF FreshTokens
<1>2. table' = [next |-> Successor(ts[n]), pending |-> table.pending \union new]
  BY <1>1 DEF Create
<1>3. TableTypeOK'
  <2>1. ts[n] \in Tokens
    BY <1>1
  <2>2. Successor(ts[n]) \in Tokens
    BY <2>1, SuccessorIsToken
  <2>3. QED
    BY <1>2, <2>2 DEF TableInv, TableTypeOK
<1>4. TokensAreUnique'
  <2>1. \A p \in table.pending, q \in new : p.token # q.token
    BY <1>1 DEF InUse
  <2>2. QED
    BY <1>2, <2>1 DEF TableInv, TokensAreUnique
<1>5. QED
  BY <1>3, <1>4 DEF TableInv

(* A flush gives every call of its queue such an entry. *)
LEMMA IssueKeepsInv ==
    ASSUME TableInv,
           NEW n \in Nat, n > 0,
           NEW clients, \A i \in 1 .. n : clients[i] \in Files, Len(clients) = n,
           NEW service \in Files, Issue(clients, service)
    PROVE  TableInv'
<1> DEFINE entry(ts, i) == [token |-> ts[i], client |-> clients[i], service |-> service]
           new(ts) == {entry(ts, i) : i \in 1 .. n}
<1>1. PICK ts \in Allocate(table, n) : table' = Create(table, ts, new(ts))
  BY DEF Issue
<1>2. FreshTokens(table, n, ts)
  BY AllocateGivesFreshTokens, Zenon
<1>3. \A i \in 1 .. n : entry(ts, i) \in Entry /\ entry(ts, i).token = ts[i]
  BY <1>2 DEF Entry, FreshTokens
<1>4. new(ts) \in SUBSET Entry
  BY <1>3
<1>5. \A p \in new(ts) : \E i \in 1 .. n : p.token = ts[i]
  BY <1>3
<1>6. \A p, q \in new(ts) : p.token = q.token => p = q
  BY <1>2, <1>3 DEF FreshTokens
<1>7. QED
  BY <1>1, <1>4, <1>5, <1>6, CreateKeepsInv

(* Removing entries, by consume or remove_for_file, keeps both.            *)
LEMMA DiscardKeepsInv ==
    ASSUME TableInv, NEW entries, table' = Discard(table, entries)
    PROVE  TableInv'
<1>1. table' = [next |-> table.next, pending |-> table.pending \ entries]
  BY DEF TableInv, TableTypeOK, Discard
<1>2. QED
  BY <1>1 DEF TableInv, TableTypeOK, TokensAreUnique

(* A table of tokens is well-formed and never has one token for two        *)
(* requests, for every width of the counter.                               *)
THEOREM TableCorrect == Spec => [](TableTypeOK /\ TokensAreUnique)
<1>1. Init => TableInv
  BY U64MaxAssumption DEF Init, TableInv, TableTypeOK, TokensAreUnique, NoTokens, Tokens
<1>2. TableInv /\ [Next]_table => TableInv'
  <2> SUFFICES ASSUME TableInv, [Next]_table
               PROVE  TableInv'
    OBVIOUS
  <2>1. ASSUME NEW file \in Files, NEW n \in 1 .. MaxBatch,
               NEW clients \in [1 .. n -> Files], Issue(clients, file)
        PROVE  TableInv'
    <3>1. n \in Nat /\ n > 0
      BY TokenTableAssumption
    <3>2. (\A i \in 1 .. n : clients[i] \in Files) /\ Len(clients) = n
      BY <3>1
    <3>3. QED
      BY <2>1, <3>1, <3>2, IssueKeepsInv
  <2>2. ASSUME NEW file \in Files, NEW token \in Tokens, Consume(token, file)
        PROVE  TableInv'
    BY <2>2, DiscardKeepsInv DEF Consume
  <2>3. ASSUME NEW file \in Files, RemoveForFile(file)
        PROVE  TableInv'
    BY <2>3, DiscardKeepsInv DEF RemoveForFile
  <2>4. CASE UNCHANGED table
    BY <2>4 DEF TableInv, TableTypeOK, TokensAreUnique
  <2>5. QED
    BY <2>1, <2>2, <2>3, <2>4 DEF Next
<1>3. QED
  BY <1>1, <1>2, PTL DEF Spec, TableInv

(* The types alone: the counter never stands at 0 and every entry has a    *)
(* token from 1 to u64::MAX, also when allocate_unique wraps.              *)
THEOREM TableTypesCorrect == Spec => []TableTypeOK
BY TableCorrect, PTL
===============================================================================
