-------------------------- MODULE ReplyTokensProofs --------------------------
(***************************************************************************)
(* What the operators of ReplyTokens return, for every U64Max and every    *)
(* table: the facts the proofs about TokenTable and Motherboard rest on.   *)
(***************************************************************************)
EXTENDS ReplyTokens, FiniteSetTheorems, TLAPS

(* The counter stays a token when it is incremented: 0 is skipped          *)
(* (wrapping_add and the `if self.next == 0` of allocate_unique).          *)
LEMMA SuccessorIsToken ==
    ASSUME NEW n \in Tokens
    PROVE  Successor(n) \in Tokens
BY U64MaxAssumption DEF Tokens, Successor

(* ts is a sequence of count different tokens that are not in the map. *)
FreshTokens(tbl, count, ts) ==
    /\ ts \in [1 .. count -> Tokens \ InUse(tbl)]
    /\ ts \in Seq(Tokens \ InUse(tbl))
    /\ Len(ts) = count
    /\ \A i, j \in 1 .. count : ts[i] = ts[j] => i = j

(* allocate_unique hands out tokens that are not in the map, and never the *)
(* same one twice in one flush.                                            *)
LEMMA AllocateGivesFreshTokens ==
    ASSUME NEW tbl, NEW count \in Nat, NEW ts \in Allocate(tbl, count)
    PROVE  FreshTokens(tbl, count, ts)
<1> DEFINE free == Tokens \ InUse(tbl)
           pick(i) == CHOOSE t \in free : Rank(tbl, free, t) = i - 1
<1>1. /\ \A i \in 1 .. count : \E t \in free : Rank(tbl, free, t) = i - 1
      /\ ts = [i \in 1 .. count |-> pick(i)]
  BY DEF Allocate
<1>2. \A i \in 1 .. count : pick(i) \in free /\ Rank(tbl, free, pick(i)) = i - 1
  BY <1>1, Zenon
<1> HIDE DEF pick, free
<1>3. ts \in [1 .. count -> free]
  BY <1>1, <1>2
<1>4. ts \in Seq(free) /\ Len(ts) = count
  BY <1>3
<1>5. ASSUME NEW i \in 1 .. count, NEW j \in 1 .. count, ts[i] = ts[j]
      PROVE  i = j
  <2>1. pick(i) = pick(j)
    BY <1>1, <1>5
  <2>2. i - 1 = j - 1
    BY <1>2, <2>1
  <2>3. QED
    BY <2>2
<1>6. QED
  BY <1>3, <1>4, <1>5 DEF free, FreshTokens

(* While the counter does not wrap, the tokens of a flush go up from it:   *)
(* none is below the counter, and the last is the highest.                 *)
LEMMA TokensGoUp ==
    ASSUME NEW tbl, tbl.next \in Tokens, NEW count \in Nat, count > 0,
           NEW ts \in Allocate(tbl, count), tbl.next <= ts[count],
           NEW i \in 1 .. count
    PROVE  tbl.next <= ts[i] /\ ts[i] <= ts[count]
<1> DEFINE free == Tokens \ InUse(tbl)
           pick(j) == CHOOSE t \in free : Rank(tbl, free, t) = j - 1
           Below(t) == {u \in free : Distance(tbl.next, u) < Distance(tbl.next, t)}
<1>1. /\ \A j \in 1 .. count : \E t \in free : Rank(tbl, free, t) = j - 1
      /\ ts = [j \in 1 .. count |-> pick(j)]
  BY DEF Allocate
<1>2. \A j \in 1 .. count : pick(j) \in free /\ Rank(tbl, free, pick(j)) = j - 1
  BY <1>1, Zenon
<1>3. IsFiniteSet(free)
  <2>1. IsFiniteSet(Tokens)
    BY U64MaxAssumption, FS_Interval DEF Tokens
  <2>2. QED
    BY <2>1, FS_Subset
<1>4. \A t : Rank(tbl, free, t) = Cardinality(Below(t))
  BY DEF Rank
<1> HIDE DEF pick, free
<1>5. /\ ts[i] \in free /\ Rank(tbl, free, ts[i]) = i - 1
      /\ ts[count] \in free /\ Rank(tbl, free, ts[count]) = count - 1
  BY <1>1, <1>2
<1>6. ts[i] \in 1 .. U64Max /\ ts[count] \in 1 .. U64Max /\ tbl.next \in 1 .. U64Max
  BY <1>5 DEF free, Tokens
<1>7. \A t \in 1 .. U64Max : Distance(tbl.next, t) \in Int
  BY <1>6, U64MaxAssumption DEF Distance
<1>8. ASSUME Distance(tbl.next, ts[i]) > Distance(tbl.next, ts[count])
      PROVE  FALSE
  <2>1. Below(ts[count]) \subseteq Below(ts[i]) /\ ts[count] \in Below(ts[i])
    <3>1. \A u \in free : Distance(tbl.next, u) \in Int
      BY <1>7 DEF free, Tokens
    <3>2. QED
      BY <1>5, <1>6, <1>7, <1>8, <3>1
  <2>2. ts[count] \notin Below(ts[count])
    BY <1>6, <1>7
  <2>3. IsFiniteSet(Below(ts[i]))
    BY <1>3, FS_Subset
  <2> HIDE DEF Below
  <2>4. /\ Cardinality(Below(ts[count])) <= Cardinality(Below(ts[i]))
        /\ Cardinality(Below(ts[count])) # Cardinality(Below(ts[i]))
    BY <2>1, <2>2, <2>3, FS_Subset
  <2>5. Cardinality(Below(ts[count])) = count - 1 /\ Cardinality(Below(ts[i])) = i - 1
    BY <1>4, <1>5
  <2>6. QED
    BY <2>4, <2>5
<1>9. Distance(tbl.next, ts[i]) <= Distance(tbl.next, ts[count])
  BY <1>6, <1>7, <1>8
<1>10. QED
  BY <1>6, <1>9, U64MaxAssumption DEF Distance
===============================================================================
