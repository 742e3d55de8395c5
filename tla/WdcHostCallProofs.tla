------------------------- MODULE WdcHostCallProofs -------------------------
(***************************************************************************)
(* Proofs about the host-call path (WdcHostCall), for tables of any size,  *)
(* any keys, values and limits, and any applications: the configuration    *)
(* and timer tables are bounded maps, and an entry changes by right only.  *)
(***************************************************************************)
EXTENDS WdcHostCall, FiniteSetTheorems, WellFoundedInduction, TLAPS

-----------------------------------------------------------------------------
(***************************************************************************)
(* The first of the checks that fail                                       *)
(***************************************************************************)

\* A non-empty set of naturals has a smallest element, and Min finds it.
LEMMA MinIsMember ==
    ASSUME NEW S \in SUBSET Nat, S # {}
    PROVE  Min(S) \in S /\ \A y \in S : Min(S) <= y
<1>. DEFINE R == OpToRel(<, Nat)
<1>1. IsWellFoundedOn(R, Nat)
  BY NatLessThanWellFounded
<1>2. \A x, y \in Nat : <<y, x>> \in R <=> y < x
  BY DEF OpToRel
<1>. HIDE DEF R
<1>3. PICK x \in S : \A y \in S : ~(<<y, x>> \in R)
  BY <1>1, WFMin
<1>4. ASSUME NEW y \in S PROVE x <= y
  <2>1. x \in Nat /\ y \in Nat /\ ~(y < x)
    BY <1>2, <1>3
  <2>. QED  BY <2>1
<1>5. \E z \in S : \A y \in S : z <= y
  BY <1>4
<1>. QED  BY <1>5 DEF Min

\* A sequence of checks whose errors are errors passes exactly if each check
\* does, and fails with the error of one that does not.
LEMMA FirstErrorFacts ==
    ASSUME NEW checks, DOMAIN checks \subseteq Nat,
           \A i \in DOMAIN checks : ~checks[i].ok => checks[i].err # "OK"
    PROVE  /\ FirstError(checks) = "OK" <=> \A i \in DOMAIN checks : checks[i].ok
           /\ FirstError(checks) # "OK"
                => \E i \in DOMAIN checks : /\ ~checks[i].ok
                                            /\ FirstError(checks) = checks[i].err
                                            /\ \A j \in DOMAIN checks :
                                                  j < i => checks[j].ok
<1>. DEFINE failing == {i \in DOMAIN checks : ~checks[i].ok}
<1>1. CASE failing = {}
  BY <1>1 DEF FirstError
<1>2. CASE failing # {}
  <2>1. failing \in SUBSET Nat
    OBVIOUS
  <2>2. /\ Min(failing) \in failing
        /\ \A j \in failing : Min(failing) <= j
    <3>. HIDE DEF failing
    <3>. QED  BY <1>2, <2>1, MinIsMember
  <2>3. FirstError(checks) = checks[Min(failing)].err
    BY <1>2 DEF FirstError
  <2>4. PICK m : m = Min(failing)
    OBVIOUS
  <2>5. /\ m \in DOMAIN checks /\ ~checks[m].ok
        /\ FirstError(checks) = checks[m].err
    BY <2>2, <2>3, <2>4
  <2>6. ASSUME NEW j \in DOMAIN checks, j < m PROVE checks[j].ok
    <3>1. j \in failing => m <= j
      BY <2>2, <2>4
    <3>2. j \in Nat /\ m \in Nat
      BY <2>5
    <3>. QED  BY <2>6, <3>1, <3>2
  <2>. QED  BY <2>5, <2>6
<1>. QED  BY <1>1, <1>2

\* The same for two checks in a row ...
LEMMA FirstErrorOf2 ==
    ASSUME NEW a, NEW b, NEW d, NEW e, d # "OK", e # "OK"
    PROVE  LET f == FirstError(<<Check(a, d), Check(b, e)>>)
           IN  /\ f = "OK" <=> a /\ b
               /\ f \in {"OK", d, e}
<1>. DEFINE s == <<Check(a, d), Check(b, e)>>
<1>1. /\ DOMAIN s = {1, 2}
      /\ s[1].ok = a /\ s[2].ok = b /\ s[1].err = d /\ s[2].err = e
  BY DEF Check
<1>2. DOMAIN s \subseteq Nat /\ \A i \in DOMAIN s : s[i].err # "OK"
  BY <1>1
<1>. HIDE DEF s
<1>3. /\ FirstError(s) = "OK" <=> \A i \in DOMAIN s : s[i].ok
      /\ FirstError(s) # "OK" => \E i \in DOMAIN s : FirstError(s) = s[i].err
  BY <1>2, FirstErrorFacts
<1>. QED  BY <1>1, <1>3 DEF s

\* ... and for three.
LEMMA FirstErrorOf3 ==
    ASSUME NEW a, NEW b, NEW c, NEW d, NEW e, NEW f, d # "OK", e # "OK", f # "OK"
    PROVE  LET r == FirstError(<<Check(a, d), Check(b, e), Check(c, f)>>)
           IN  /\ r = "OK" <=> a /\ b /\ c
               /\ r \in {"OK", d, e, f}
<1>. DEFINE s == <<Check(a, d), Check(b, e), Check(c, f)>>
<1>1. /\ DOMAIN s = {1, 2, 3}
      /\ s[1].ok = a /\ s[2].ok = b /\ s[3].ok = c
      /\ s[1].err = d /\ s[2].err = e /\ s[3].err = f
  BY DEF Check
<1>2. DOMAIN s \subseteq Nat /\ \A i \in DOMAIN s : s[i].err # "OK"
  BY <1>1
<1>. HIDE DEF s
<1>3. /\ FirstError(s) = "OK" <=> \A i \in DOMAIN s : s[i].ok
      /\ FirstError(s) # "OK" => \E i \in DOMAIN s : FirstError(s) = s[i].err
  BY <1>2, FirstErrorFacts
<1>. QED  BY <1>1, <1>3 DEF s

-----------------------------------------------------------------------------
(***************************************************************************)
(* Tables: a function from 1..N to free slots and entries, in which no two *)
(* entries have the same key.                                              *)
(***************************************************************************)

\* The code never says it, but a lookup that stops at the first match is a
\* lookup in a map only if there is at most one.
KeysUnique(table) ==
    \A i, j \in DOMAIN table :
        /\ table[i] # Free /\ table[j] # Free
        /\ table[i].key = table[j].key
        => i = j

IsTable(table, n, K, V) ==
    /\ table \in [1..n -> Slots(K, V)]
    /\ n \in Nat /\ None \notin K \cup V
    /\ KeysUnique(table)

\* An entry is not a free slot.
LEMMA EntryFacts ==
    ASSUME NEW K, NEW V, None \notin K \cup V
    PROVE  /\ \A k \in K, v \in V : /\ [key |-> k, val |-> v] # Free
                                    /\ [key |-> k, val |-> v] \in Slots(K, V)
           /\ Free \in Slots(K, V)
           /\ \A e \in Slots(K, V) : e # Free => e.key \in K /\ e.val \in V
<1>1. \A k \in K, v \in V : [key |-> k, val |-> v].key # Free.key
  BY DEF Free
<1>. QED  BY <1>1 DEF Slots, Free

\* find_config and find_timer return the slot of the key, if there is one.
LEMMA FindFacts ==
    ASSUME NEW n, NEW K, NEW V, NEW table, IsTable(table, n, K, V), NEW k
    PROVE  /\ Find(table, k) # 0
                => /\ Find(table, k) \in 1..n
                   /\ table[Find(table, k)] # Free
                   /\ table[Find(table, k)].key = k
           /\ \A i \in 1..n : table[i] # Free /\ table[i].key = k
                                 => Find(table, k) = i
<1>. DEFINE at == {i \in DOMAIN table : table[i] # Free /\ table[i].key = k}
<1>1. DOMAIN table = 1..n /\ n \in Nat /\ at \in SUBSET Nat
  BY DEF IsTable
<1>2. CASE at = {}
  <2>1. Find(table, k) = 0
    BY <1>2 DEF Find
  <2>. QED  BY <1>1, <1>2, <2>1
<1>3. CASE at # {}
  <2>1. Min(at) \in at
    <3>. HIDE DEF at
    <3>. QED  BY <1>1, <1>3, MinIsMember
  <2>2. Find(table, k) = Min(at)
    BY <1>3 DEF Find
  <2>3. \A i \in at : i = Min(at)
    BY <2>1 DEF IsTable, KeysUnique
  <2>. QED  BY <1>1, <2>1, <2>2, <2>3
<1>. QED  BY <1>2, <1>3

\* What a lookup returns.
LEMMA LookupFacts ==
    ASSUME NEW n, NEW K, NEW V, NEW table, IsTable(table, n, K, V), NEW k
    PROVE  /\ Find(table, k) = 0 <=> Lookup(table, k) = None
           /\ \A i \in 1..n : table[i] # Free /\ table[i].key = k
                                 => Lookup(table, k) = table[i].val
           /\ (\A i \in 1..n : table[i] # Free => table[i].key # k)
                => Lookup(table, k) = None
           /\ Lookup(table, k) # None => k \in K /\ Lookup(table, k) \in V
<1>1. /\ Find(table, k) # 0
           => /\ Find(table, k) \in 1..n
              /\ table[Find(table, k)] # Free
              /\ table[Find(table, k)].key = k
      /\ \A i \in 1..n : table[i] # Free /\ table[i].key = k
                            => Find(table, k) = i
  BY FindFacts
<1>2. \A i \in 1..n : table[i] # Free => table[i].key \in K /\ table[i].val \in V
  BY EntryFacts DEF IsTable
<1>3. n \in Nat /\ None \notin V
  BY DEF IsTable
<1>. QED  BY <1>1, <1>2, <1>3 DEF Lookup

\* The slot a write goes to: the key's own, or a free one, or none.
LEMMA SlotForFacts ==
    ASSUME NEW n, NEW K, NEW V, NEW table, IsTable(table, n, K, V), NEW k
    PROVE  LET s == SlotFor(table, k)
           IN  \/ /\ s \in 1..n /\ table[s] # Free /\ table[s].key = k
                  /\ Lookup(table, k) # None
               \/ /\ s \in 1..n /\ table[s] = Free
                  /\ Lookup(table, k) = None
               \/ /\ s = 0 /\ Lookup(table, k) = None
                  /\ \A i \in 1..n : table[i] # Free
<1>. DEFINE free == {i \in DOMAIN table : table[i] = Free}
<1>1. DOMAIN table = 1..n /\ n \in Nat /\ free \in SUBSET Nat
  BY DEF IsTable
<1>2. Find(table, k) = 0 <=> Lookup(table, k) = None
  BY LookupFacts
<1>3. CASE Find(table, k) # 0
  <2>1. SlotFor(table, k) = Find(table, k)
    BY <1>3 DEF SlotFor
  <2>. QED  BY <1>2, <1>3, <2>1, FindFacts
<1>4. CASE Find(table, k) = 0 /\ free # {}
  <2>1. Min(free) \in free
    <3>. HIDE DEF free
    <3>. QED  BY <1>1, <1>4, MinIsMember
  <2>2. SlotFor(table, k) = Min(free)
    BY <1>4 DEF SlotFor
  <2>. QED  BY <1>1, <1>2, <1>4, <2>1, <2>2
<1>5. CASE Find(table, k) = 0 /\ free = {}
  <2>1. SlotFor(table, k) = 0
    BY <1>5 DEF SlotFor
  <2>. QED  BY <1>1, <1>2, <1>5, <2>1
<1>. QED  BY <1>3, <1>4, <1>5

\* Writing an entry: the table stays a table, the key has the value, unless
\* there was no room, and no other key is touched.
LEMMA WrittenFacts ==
    ASSUME NEW n, NEW K, NEW V, NEW table, IsTable(table, n, K, V),
           NEW k \in K, NEW v \in V
    PROVE  LET w == Written(table, k, v)
           IN  /\ IsTable(w, n, K, V)
               /\ SlotFor(table, k) = 0 => w = table
               /\ SlotFor(table, k) # 0 => Lookup(w, k) = v
               /\ \A x : x # k => Lookup(w, x) = Lookup(table, x)
               /\ \A i \in 1..n : w[i] = table[i] \/ w[i] = [key |-> k, val |-> v]
<1>1. CASE SlotFor(table, k) = 0
  <2>1. Written(table, k, v) = table
    BY <1>1 DEF Written
  <2>2. \A i \in 1..n : table[i] = table[i]
    OBVIOUS
  <2>. QED  BY <1>1, <2>1, <2>2
<1>2. CASE SlotFor(table, k) # 0
  <2>1. PICK s, e, w : /\ s = SlotFor(table, k) /\ e = [key |-> k, val |-> v]
                       /\ w = Written(table, k, v)
    OBVIOUS
  <2>2. /\ s \in 1..n
        /\ \/ table[s] # Free /\ table[s].key = k
           \/ table[s] = Free /\ Lookup(table, k) = None
    BY <1>2, <2>1, SlotForFacts
  <2>3. w = [table EXCEPT ![s] = e]
    BY <1>2, <2>1 DEF Written
  <2>4. /\ e # Free /\ e.key = k /\ e.val = v /\ e \in Slots(K, V)
    <3>1. None \notin K \cup V
      BY DEF IsTable
    <3>. QED  BY <2>1, <3>1, EntryFacts
  <2>5. /\ w \in [1..n -> Slots(K, V)] /\ w[s] = e
        /\ \A i \in 1..n : i # s => w[i] = table[i]
    BY <2>2, <2>3, <2>4 DEF IsTable
  <2>6. \A i \in 1..n : i # s /\ table[i] # Free => table[i].key # k
    <3>1. CASE table[s] # Free /\ table[s].key = k
      BY <2>2, <3>1 DEF IsTable, KeysUnique
    <3>2. CASE Lookup(table, k) = None
      <4>1. \A i \in 1..n : table[i] # Free /\ table[i].key = k
                               => Lookup(table, k) = table[i].val
        BY LookupFacts
      <4>2. \A i \in 1..n : table[i] # Free => table[i].val # None
        BY EntryFacts DEF IsTable
      <4>. QED  BY <3>2, <4>1, <4>2
    <3>. QED  BY <2>2, <3>1, <3>2
  <2>7. KeysUnique(w)
    BY <2>2, <2>4, <2>5, <2>6 DEF IsTable, KeysUnique
  <2>8. IsTable(w, n, K, V)
    BY <2>5, <2>7 DEF IsTable
  <2>l. ASSUME NEW x, NEW i \in 1..n, w[i] # Free, w[i].key = x
        PROVE  Lookup(w, x) = w[i].val
    BY <2>8, <2>l, LookupFacts
  <2>9. Lookup(w, k) = v
    BY <2>2, <2>4, <2>5, <2>l
  <2>10. ASSUME NEW x, x # k PROVE Lookup(w, x) = Lookup(table, x)
    <3>1. CASE \E i \in 1..n : table[i] # Free /\ table[i].key = x
      <4>1. PICK i \in 1..n : table[i] # Free /\ table[i].key = x
        BY <3>1
      <4>2. i # s
        BY <2>2, <2>10, <4>1
      <4>3. Lookup(table, x) = table[i].val
        BY <4>1, LookupFacts
      <4>4. Lookup(w, x) = w[i].val
        BY <2>5, <2>l, <4>1, <4>2
      <4>. QED  BY <2>5, <4>2, <4>3, <4>4
    <3>2. CASE \A i \in 1..n : table[i] # Free => table[i].key # x
      <4>1. Lookup(table, x) = None
        BY <3>2, LookupFacts
      <4>2. \A i \in 1..n : w[i] # Free => w[i].key # x
        BY <2>4, <2>5, <2>10, <3>2
      <4>3. Lookup(w, x) = None
        BY <2>8, <4>2, LookupFacts
      <4>. QED  BY <4>1, <4>3
    <3>. QED  BY <3>1, <3>2
  <2>11. \A i \in 1..n : w[i] = table[i] \/ w[i] = e
    BY <2>5
  <2>. QED  BY <1>2, <2>1, <2>8, <2>9, <2>10, <2>11
<1>. QED  BY <1>1, <1>2

\* Clearing an entry: the key is gone and no other key is touched.
LEMMA ClearedFacts ==
    ASSUME NEW n, NEW K, NEW V, NEW table, IsTable(table, n, K, V), NEW k
    PROVE  LET w == Cleared(table, k)
           IN  /\ IsTable(w, n, K, V)
               /\ Lookup(w, k) = None
               /\ \A x : x # k => Lookup(w, x) = Lookup(table, x)
               /\ \A i \in 1..n : w[i] = table[i] \/ w[i] = Free
<1>1. CASE Find(table, k) = 0
  <2>1. Cleared(table, k) = table
    BY <1>1 DEF Cleared
  <2>2. Lookup(table, k) = None
    BY <1>1 DEF Lookup
  <2>3. \A i \in 1..n : table[i] = table[i]
    OBVIOUS
  <2>. QED  BY <2>1, <2>2, <2>3
<1>2. CASE Find(table, k) # 0
  <2>1. PICK s, w : s = Find(table, k) /\ w = Cleared(table, k)
    OBVIOUS
  <2>2. s \in 1..n /\ table[s] # Free /\ table[s].key = k
    BY <1>2, <2>1, FindFacts
  <2>3. w = [table EXCEPT ![s] = Free]
    BY <1>2, <2>1 DEF Cleared
  <2>4. Free \in Slots(K, V)
    BY DEF Slots
  <2>5. /\ w \in [1..n -> Slots(K, V)] /\ w[s] = Free
        /\ \A i \in 1..n : i # s => w[i] = table[i]
    BY <2>2, <2>3, <2>4 DEF IsTable
  <2>6. KeysUnique(w)
    BY <2>2, <2>5 DEF IsTable, KeysUnique
  <2>7. IsTable(w, n, K, V)
    BY <2>5, <2>6 DEF IsTable
  <2>8. \A i \in 1..n : w[i] # Free => w[i].key # k
    BY <2>2, <2>5 DEF IsTable, KeysUnique
  <2>9. Lookup(w, k) = None
    BY <2>7, <2>8, LookupFacts
  <2>10. ASSUME NEW x, x # k PROVE Lookup(w, x) = Lookup(table, x)
    <3>1. CASE \E i \in 1..n : table[i] # Free /\ table[i].key = x
      <4>1. PICK i \in 1..n : table[i] # Free /\ table[i].key = x
        BY <3>1
      <4>2. i # s
        BY <2>2, <2>10, <4>1
      <4>3. Lookup(table, x) = table[i].val
        BY <4>1, LookupFacts
      <4>4. w[i] # Free /\ w[i].key = x /\ w[i] = table[i]
        BY <2>5, <4>1, <4>2
      <4>5. Lookup(w, x) = w[i].val
        BY <2>7, <4>4, LookupFacts
      <4>. QED  BY <4>3, <4>4, <4>5
    <3>2. CASE \A i \in 1..n : table[i] # Free => table[i].key # x
      <4>1. Lookup(table, x) = None
        BY <3>2, LookupFacts
      <4>2. \A i \in 1..n : w[i] # Free => w[i].key # x
        BY <2>5, <3>2
      <4>3. Lookup(w, x) = None
        BY <2>7, <4>2, LookupFacts
      <4>. QED  BY <4>1, <4>3
    <3>. QED  BY <3>1, <3>2
  <2>11. \A i \in 1..n : w[i] = table[i] \/ w[i] = Free
    BY <2>5
  <2>. QED  BY <2>1, <2>7, <2>9, <2>10, <2>11
<1>. QED  BY <1>1, <1>2

\* The keys a table holds are as many as its entries, so it is full of keys
\* exactly when no slot is free.
LEMMA Room ==
    ASSUME NEW n, NEW K, NEW V, NEW table, IsTable(table, n, K, V),
           NEW D, K \subseteq D,
           NEW P, P = {k \in D : Lookup(table, k) # None}
    PROVE  /\ Cardinality(P) \in Nat
           /\ (\A i \in 1..n : table[i] # Free) => Cardinality(P) = n
           /\ (\E i \in 1..n : table[i] = Free) => Cardinality(P) < n
<1>. DEFINE occ == {i \in 1..n : table[i] # Free}
            f == [i \in occ |-> table[i].key]
<1>1. n \in Nat /\ None \notin V
  BY DEF IsTable
<1>2. IsFiniteSet(1..n) /\ Cardinality(1..n) = n
  BY <1>1, FS_Interval
<1>3. occ \in SUBSET (1..n)
  OBVIOUS
<1>4. \A i \in occ : /\ table[i].key \in K /\ table[i].val # None
                     /\ Lookup(table, table[i].key) = table[i].val
  <2>1. \A i \in occ : table[i].key \in K /\ table[i].val \in V
    BY EntryFacts DEF IsTable
  <2>2. \A i \in occ : Lookup(table, table[i].key) = table[i].val
    BY LookupFacts
  <2>. QED  BY <1>1, <2>1, <2>2
<1>5. ASSUME NEW k \in P PROVE \E i \in occ : f[i] = k
  <2>1. Lookup(table, k) # None
    OBVIOUS
  <2>2. Find(table, k) # 0
    BY <2>1, LookupFacts
  <2>. QED  BY <2>2, FindFacts
<1>6. f \in [occ -> P]
  BY <1>4
<1>7. \A i, j \in occ : f[i] = f[j] => i = j
  BY DEF IsTable, KeysUnique
<1>8. f \in Bijection(occ, P)
  BY <1>5, <1>6, <1>7, Zenon DEF Bijection, Injection, Surjection, IsInjective
<1>9. ExistsBijection(occ, P)
  BY <1>8 DEF ExistsBijection
<1>10. IsFiniteSet(occ) /\ Cardinality(occ) <= n /\ (Cardinality(occ) = n => occ = 1..n)
  BY <1>2, <1>3, FS_Subset
<1>11. Cardinality(P) = Cardinality(occ)
  BY <1>9, <1>10, FS_Bijection
<1>12. Cardinality(occ) \in Nat
  BY <1>10, FS_CardinalityType
<1>13. (\A i \in 1..n : table[i] # Free) => occ = 1..n
  OBVIOUS
<1>14. (\E i \in 1..n : table[i] = Free) => occ # 1..n
  OBVIOUS
<1>. HIDE DEF occ
<1>. QED  BY <1>1, <1>2, <1>10, <1>11, <1>12, <1>13, <1>14

-----------------------------------------------------------------------------
(***************************************************************************)
(* Calls and the checks before a handler.                                  *)
(***************************************************************************)

\* What the members of a call are, by operation.
LEMMA CallsType ==
    ASSUME NEW c \in Calls
    PROVE  /\ c.rsp \in Nat
           /\ c.op = "CONFIG_SET" => c.key \in Key \cup {None} /\ c.val \in Value \cup {None}
           /\ c.op \in {"CONFIG_GET", "CONFIG_DELETE"}
                => c.key \in Key \cup {None} /\ c.val = None
           /\ c.op = "TIMER_SET"
                => c.key \in TimerId \cup {None} /\ c.val \in TimerSpec \cup {None}
           /\ c.op = "TIMER_CANCEL" => c.key \in TimerId \cup {None} /\ c.val = None
<1>. DEFINE Buffers == [map : BOOLEAN, inside : BOOLEAN, rsp : 0..Default.rsp + 1]
            With(op, K, V) == {[op |-> op, key |-> k, val |-> v, map |-> b.map,
                                inside |-> b.inside, rsp |-> b.rsp] :
                                    k \in K \cup {None}, v \in V, b \in Buffers}
<1>1. Default.rsp \in Nat
  BY HostCallAssumption
<1>2. \A b \in Buffers : b.rsp \in Nat
  BY <1>1
<1>. HIDE DEF Buffers
<1>3. ASSUME NEW op, NEW K, NEW V, NEW d \in With(op, K, V)
      PROVE  d.op = op /\ d.key \in K \cup {None} /\ d.val \in V /\ d.rsp \in Nat
  BY <1>2, <1>3
<1>4. \/ c \in With("CONFIG_SET", Key, Value \cup {None})
      \/ c \in With("CONFIG_GET", Key, {None})
      \/ c \in With("CONFIG_DELETE", Key, {None})
      \/ c \in With("TIMER_SET", TimerId, TimerSpec \cup {None})
      \/ c \in With("TIMER_CANCEL", TimerId, {None})
      \/ c \in With("SYS_GET_INFO", {}, {None})
      \/ c \in With("TIME_GET", {}, {None})
  <2>1. Calls = UNION {With("CONFIG_SET", Key, Value \cup {None}),
                       With("CONFIG_GET", Key, {None}),
                       With("CONFIG_DELETE", Key, {None}),
                       With("TIMER_SET", TimerId, TimerSpec \cup {None}),
                       With("TIMER_CANCEL", TimerId, {None}),
                       With("SYS_GET_INFO", {}, {None}),
                       With("TIME_GET", {}, {None})}
    BY DEF Calls, Buffers
  <2>. HIDE DEF With
  <2>. QED  BY <2>1
<1>. HIDE DEF With
<1>5. CASE c \in With("CONFIG_SET", Key, Value \cup {None})
  BY <1>3, <1>5
<1>6. CASE c \in With("CONFIG_GET", Key, {None})
  BY <1>3, <1>6
<1>7. CASE c \in With("CONFIG_DELETE", Key, {None})
  BY <1>3, <1>7
<1>8. CASE c \in With("TIMER_SET", TimerId, TimerSpec \cup {None})
  BY <1>3, <1>8
<1>9. CASE c \in With("TIMER_CANCEL", TimerId, {None})
  BY <1>3, <1>9
<1>10. CASE c \in With("SYS_GET_INFO", {}, {None}) \/ c \in With("TIME_GET", {}, {None})
  BY <1>3, <1>10
<1>. QED  BY <1>4, <1>5, <1>6, <1>7, <1>8, <1>9, <1>10

\* A call that passes the gate has room for at least one unit of response.
LEMMA GateFacts ==
    ASSUME NEW c \in Calls, Gate(c) = "OK"
    PROVE  c.rsp >= 1
<1>. DEFINE s == <<
        Check(ReqLen(c) <= Default.req /\ c.rsp <= Default.rsp, "BAD_LENGTH"),
        Check(c.inside, "BAD_POINTER"),
        Check(c.op \in Supported, "UNSUPPORTED_OPCODE"),
        Check(ReqLen(c) <= limits.req /\ c.rsp <= limits.rsp, "BAD_LENGTH"),
        Check(c.rsp # 0, "RESPONSE_TOO_SMALL"),
        Check(c.map, "BAD_ENCODING") >>
<1>1. DOMAIN s = {1, 2, 3, 4, 5, 6}
  OBVIOUS
<1>2. \A i \in DOMAIN s : s[i].err # "OK"
  BY <1>1 DEF Check
<1>3. s[5].ok = (c.rsp # 0)
  BY DEF Check
<1>4. FirstError(s) = "OK"
  BY DEF Gate
<1>. HIDE DEF s
<1>5. \A i \in DOMAIN s : s[i].ok
  <2>1. DOMAIN s \subseteq Nat
    BY <1>1
  <2>. QED  BY <1>2, <1>4, <2>1, FirstErrorFacts
<1>6. c.rsp # 0
  BY <1>1, <1>3, <1>5
<1>. QED  BY <1>6, CallsType

\* find_config_capability_index returns a capability that covers the call.
LEMMA CapForFacts ==
    ASSUME NEW a \in App, NEW op, NEW k, CapFor(a, op, k) # 0
    PROVE  LET i == CapFor(a, op, k)
           IN  i \in DOMAIN Caps[a] /\ op \in Caps[a][i].ops /\ k \in Caps[a][i].keys
<1>. DEFINE covering == {i \in DOMAIN Caps[a] :
                            op \in Caps[a][i].ops /\ k \in Caps[a][i].keys}
<1>1. DOMAIN Caps[a] \subseteq Nat
  BY HostCallAssumption
<1>2. covering \in SUBSET Nat /\ covering # {}
  BY <1>1 DEF CapFor
<1>3. Min(covering) \in covering
  <2>. HIDE DEF covering
  <2>. QED  BY <1>2, MinIsMember
<1>4. CapFor(a, op, k) = Min(covering)
  BY <1>2 DEF CapFor
<1>. QED  BY <1>3, <1>4

\* A decision is OK or one of the authorizer's errors, and OK only if there is
\* an authorizer (or nothing to authorize), the application runs (or nothing
\* changes), and for a configuration call a capability covers it.
LEMMA DecisionFacts ==
    ASSUME NEW c, NEW d \in Decisions(c)
    PROVE  /\ d \in {"OK", "CAPABILITY_DENIED", "INVALID_STATE", "BAD_ENCODING",
                     "BAD_LENGTH", "RATE_LIMITED"}
           /\ d = "OK" => /\ auth # NoApp \/ c.op = "SYS_GET_INFO"
                          /\ c.op \in Effectful => running
                          /\ auth # NoApp => CapsDecision(c) = "OK"
<1>. DEFINE f == FirstError(<<
                Check(auth # NoApp \/ c.op = "SYS_GET_INFO", "CAPABILITY_DENIED"),
                Check(c.op \in Effectful => running, "INVALID_STATE") >>)
            e == IF f # "OK" \/ auth = NoApp THEN f ELSE CapsDecision(c)
<1>1. /\ f = "OK" <=> /\ auth # NoApp \/ c.op = "SYS_GET_INFO"
                      /\ c.op \in Effectful => running
      /\ f \in {"OK", "CAPABILITY_DENIED", "INVALID_STATE"}
  <2>1. PICK p, q : /\ p = (auth # NoApp \/ c.op = "SYS_GET_INFO")
                    /\ q = (c.op \in Effectful => running)
    OBVIOUS
  <2>2. f = FirstError(<<Check(p, "CAPABILITY_DENIED"), Check(q, "INVALID_STATE")>>)
    BY <2>1, Zenon
  <2>. HIDE DEF f
  <2>3. /\ f = "OK" <=> p /\ q
        /\ f \in {"OK", "CAPABILITY_DENIED", "INVALID_STATE"}
    BY <2>2, FirstErrorOf2
  <2>. QED  BY <2>1, <2>3, Zenon
<1>2. CapsDecision(c) \in {"OK", "BAD_ENCODING", "CAPABILITY_DENIED", "BAD_LENGTH"}
  BY FirstErrorOf3 DEF CapsDecision
<1>3. d = e \/ d = "RATE_LIMITED"
  BY DEF Decisions
<1>. HIDE DEF f
<1>4. e \in {"OK", "CAPABILITY_DENIED", "INVALID_STATE", "BAD_ENCODING", "BAD_LENGTH"}
  BY <1>1, <1>2
<1>5. e = "OK" => f = "OK" /\ (auth # NoApp => CapsDecision(c) = "OK")
  OBVIOUS
<1>. HIDE DEF e
<1>. QED  BY <1>1, <1>3, <1>4, <1>5

\* What a capability decision of OK says of a configuration call.
LEMMA CapsDecisionFacts ==
    ASSUME NEW c, c.op \in ConfigOps, CapsDecision(c) = "OK", auth \in App
    PROVE  /\ c.key # None
           /\ \E i \in DOMAIN Caps[auth] :
                 /\ c.key \in Caps[auth][i].keys
                 /\ (IF c.op = "CONFIG_GET" THEN "read" ELSE "write") \in Caps[auth][i].ops
                 /\ WithinPayload(c, i)
<1>. DEFINE o == IF c.op = "CONFIG_GET" THEN "read" ELSE "write"
            i == CapFor(auth, o, c.key)
<1>1. PICK p, q, r : /\ p = (c.key # None) /\ q = (i # 0)
                     /\ r = (i # 0 /\ WithinPayload(c, i))
  OBVIOUS
<1>2. CapsDecision(c) = FirstError(<<Check(c.key # None, "BAD_ENCODING"),
                                     Check(i # 0, "CAPABILITY_DENIED"),
                                     Check(i # 0 /\ WithinPayload(c, i), "BAD_LENGTH")>>)
  BY DEF CapsDecision
<1>. HIDE DEF i
<1>3. FirstError(<<Check(p, "BAD_ENCODING"), Check(q, "CAPABILITY_DENIED"),
                   Check(r, "BAD_LENGTH")>>) = "OK"
  BY <1>1, <1>2, Zenon
<1>4. p /\ q /\ r
  BY <1>3, FirstErrorOf3
<1>5. c.key # None /\ i # 0 /\ WithinPayload(c, i)
  BY <1>1, <1>4, Zenon
<1>6. i \in DOMAIN Caps[auth] /\ o \in Caps[auth][i].ops /\ c.key \in Caps[auth][i].keys
  <2>. HIDE DEF o
  <2>. QED  BY <1>5, CapForFacts DEF i
<1>. QED  BY <1>5, <1>6

\* A handler of the configuration or timer tables is reached only with an
\* authorizer and, if it writes, while the application runs.
LEMMA ReachedFacts ==
    ASSUME NEW c \in Calls, NEW op, Reached(c, op), op # "SYS_GET_INFO",
           auth \in App \cup {NoApp}
    PROVE  /\ c.op = op /\ c.rsp >= 1
           /\ auth \in App
           /\ op \in Effectful => running
           /\ op \in ConfigOps
                => /\ c.key # None
                   /\ \E i \in DOMAIN Caps[auth] :
                         /\ c.key \in Caps[auth][i].keys
                         /\ op # "CONFIG_GET" => "write" \in Caps[auth][i].ops
                         /\ WithinPayload(c, i)
<1>1. c.op = op /\ Gate(c) = "OK" /\ "OK" \in Decisions(c)
  BY DEF Reached
<1>2. /\ auth # NoApp /\ CapsDecision(c) = "OK"
      /\ op \in Effectful => running
  BY <1>1, DecisionFacts
<1>. QED  BY <1>1, <1>2, GateFacts, CapsDecisionFacts

-----------------------------------------------------------------------------
(***************************************************************************)
(* The inductive invariant.                                                *)
(***************************************************************************)

IInv == TypeOK /\ KeysUnique(config) /\ KeysUnique(timers)

ConfigTable(t) == IsTable(t, ConfigSlots, Key \ LongKey, Value)
TimerTable(t) == IsTable(t, TimerSlots, TimerId, TimerSpec)

\* The tables are tables.
LEMMA TablesAre ==
    ASSUME IInv
    PROVE  ConfigTable(config) /\ TimerTable(timers)
BY HostCallAssumption DEF IInv, TypeOK, ConfigTable, TimerTable, IsTable

\* wdc_host_call_set_limits never leaves a limit of zero or above the default.
LEMMA LimitsType ==
    ASSUME NEW a \in App
    PROVE  EffectiveLimits(a) \in [req : 1..Default.req, rsp : 1..Default.rsp]
<1>1. /\ Limits[a].req \in Nat /\ Limits[a].rsp \in Nat
      /\ Default.req \in Nat \ {0} /\ Default.rsp \in Nat \ {0}
  BY HostCallAssumption
<1>2. /\ Clamp(Limits[a].req, Default.req) \in 1..Default.req
      /\ Clamp(Limits[a].rsp, Default.rsp) \in 1..Default.rsp
  BY <1>1 DEF Clamp
<1>. QED  BY <1>2 DEF EffectiveLimits

\* config_set: nothing happens and the guest is told so, or the entry is
\* written if there is room and the guest is told that.
LEMMA ConfigSetFacts ==
    ASSUME IInv, NEW c \in Calls, ConfigSet(c)
    PROVE  /\ running /\ auth \in App
           /\ \/ config' = config /\ reply'.code = None
              \/ /\ c.key \in Key \ LongKey /\ c.val \in Value
                 /\ Size[c.val] <= ConfigValueMax
                 /\ config' = Written(config, c.key, c.val)
                 /\ reply' = [op |-> "CONFIG_SET", key |-> c.key, val |-> c.val,
                              ret |-> "OK", code |-> WriteCode(config, c.key),
                              data |-> None]
                 /\ \E i \in DOMAIN Caps[auth] :
                       /\ c.key \in Caps[auth][i].keys
                       /\ "write" \in Caps[auth][i].ops
                       /\ Caps[auth][i].max # 0 => Size[c.val] <= Caps[auth][i].max
<1>. DEFINE err == FirstError(<<
                  Check(c.val # None, "BAD_ENCODING"),
                  Check(c.key \notin LongKey /\
                        (c.val \in Value => Size[c.val] <= ConfigValueMax),
                        "BAD_LENGTH") >>)
<1>1. Reached(c, "CONFIG_SET")
  BY DEF ConfigSet
<1>2. /\ c.op = "CONFIG_SET" /\ c.rsp >= 1 /\ auth \in App /\ running
      /\ c.key # None
      /\ \E i \in DOMAIN Caps[auth] :
            /\ c.key \in Caps[auth][i].keys
            /\ "write" \in Caps[auth][i].ops
            /\ WithinPayload(c, i)
  BY <1>1, ReachedFacts DEF IInv, TypeOK, Effectful, ConfigOps
<1>3. CASE err # "OK"
  <2>1. Return(c, err) /\ UNCHANGED config
    BY <1>3 DEF ConfigSet
  <2>. QED  BY <1>2, <2>1 DEF Return, Answer
<1>4. CASE err = "OK"
  <2>1. /\ config' = Written(config, c.key, c.val)
        /\ Respond(c, WriteCode(config, c.key))
    BY <1>4 DEF ConfigSet
  <2>2. /\ c.val # None
        /\ c.key \notin LongKey /\ (c.val \in Value => Size[c.val] <= ConfigValueMax)
    <3>1. PICK p, q : /\ p = (c.val # None)
                      /\ q = (c.key \notin LongKey /\
                              (c.val \in Value => Size[c.val] <= ConfigValueMax))
      OBVIOUS
    <3>2. FirstError(<<Check(p, "BAD_ENCODING"), Check(q, "BAD_LENGTH")>>) = "OK"
      BY <1>4, <3>1, Zenon
    <3>3. p /\ q
      BY <3>2, FirstErrorOf2
    <3>. QED  BY <3>1, <3>3, Zenon
  <2>3. c.key \in Key \ LongKey /\ c.val \in Value /\ Size[c.val] <= ConfigValueMax
    BY <1>2, <2>2, CallsType
  <2>4. reply' = [op |-> "CONFIG_SET", key |-> c.key, val |-> c.val,
                  ret |-> "OK", code |-> WriteCode(config, c.key), data |-> None]
    BY <1>2, <2>1 DEF Respond, Answer
  <2>. QED  BY <1>2, <2>1, <2>2, <2>3, <2>4 DEF WithinPayload
<1>. QED  BY <1>3, <1>4

\* config_get: a miss, a response that does not fit, or the value.
LEMMA ConfigGetFacts ==
    ASSUME IInv, NEW c \in Calls, ConfigGet(c)
    PROVE  /\ reply'.op = "CONFIG_GET" /\ reply'.key = c.key
           /\ \/ /\ reply'.code = "NOT_AVAILABLE"
                 /\ Lookup(config, c.key) = None
              \/ reply'.ret = "RESPONSE_TOO_SMALL"
              \/ /\ reply'.code = "OK"
                 /\ reply'.data = Lookup(config, c.key)
                 /\ Lookup(config, c.key) # None
                 /\ c.key \in Key
<1>1. Reached(c, "CONFIG_GET")
  BY DEF ConfigGet
<1>2. c.op = "CONFIG_GET" /\ c.rsp >= 1 /\ c.key # None
  BY <1>1, ReachedFacts DEF IInv, TypeOK, ConfigOps
<1>3. ConfigTable(config)
  BY TablesAre
<1>4. Find(config, c.key) = 0 <=> Lookup(config, c.key) = None
  BY <1>3, LookupFacts DEF ConfigTable
<1>5. CASE Find(config, c.key) = 0
  BY <1>2, <1>4, <1>5 DEF ConfigGet, Respond, Answer
<1>6. CASE /\ Find(config, c.key) # 0
           /\ c.rsp < 1 + Size[config[Find(config, c.key)].val]
  BY <1>2, <1>6 DEF ConfigGet, Return, Answer
<1>7. CASE /\ Find(config, c.key) # 0
           /\ ~(c.rsp < 1 + Size[config[Find(config, c.key)].val])
  <2>1. Lookup(config, c.key) = config[Find(config, c.key)].val
    BY <1>7 DEF Lookup
  <2>2. c.key \in Key
    BY <1>2, CallsType
  <2>. QED  BY <1>2, <1>4, <1>7, <2>1, <2>2 DEF ConfigGet, Answer
<1>. QED  BY <1>5, <1>6, <1>7

\* config_delete: the entry is cleared, under a capability to write it.
LEMMA ConfigDeleteFacts ==
    ASSUME IInv, NEW c \in Calls, ConfigDelete(c)
    PROVE  /\ running /\ auth \in App /\ c.key \in Key
           /\ config' = Cleared(config, c.key)
           /\ reply'.op = "CONFIG_DELETE" /\ reply'.key = c.key
           /\ reply'.code = "OK"
           /\ \E i \in DOMAIN Caps[auth] :
                 c.key \in Caps[auth][i].keys /\ "write" \in Caps[auth][i].ops
<1>1. Reached(c, "CONFIG_DELETE")
  BY DEF ConfigDelete
<1>2. /\ c.op = "CONFIG_DELETE" /\ c.rsp >= 1 /\ auth \in App /\ running
      /\ c.key # None
      /\ \E i \in DOMAIN Caps[auth] :
            c.key \in Caps[auth][i].keys /\ "write" \in Caps[auth][i].ops
  BY <1>1, ReachedFacts DEF IInv, TypeOK, Effectful, ConfigOps
<1>3. c.key \in Key
  BY <1>2, CallsType
<1>. QED  BY <1>2, <1>3 DEF ConfigDelete, Respond, Answer

\* timer_set: nothing happens and the guest is told so, or the timer is
\* written if there is room and the guest is told that.
LEMMA TimerSetFacts ==
    ASSUME IInv, NEW c \in Calls, TimerSet(c)
    PROVE  /\ running /\ auth \in App
           /\ reply'.op = "TIMER_SET"
           /\ \/ timers' = timers /\ reply'.code = None
              \/ /\ c.key \in TimerId /\ c.val \in TimerSpec
                 /\ timers' = Written(timers, c.key, c.val)
                 /\ reply'.key = c.key /\ reply'.val = c.val
                 /\ reply'.code = WriteCode(timers, c.key)
<1>1. Reached(c, "TIMER_SET")
  BY DEF TimerSet
<1>2. c.op = "TIMER_SET" /\ c.rsp >= 1 /\ auth \in App /\ running
  BY <1>1, ReachedFacts DEF IInv, TypeOK, Effectful
<1>3. CASE None \in {c.key, c.val}
  BY <1>2, <1>3 DEF TimerSet, Return, Answer
<1>4. CASE None \notin {c.key, c.val}
  <2>1. c.key \in TimerId /\ c.val \in TimerSpec
    BY <1>2, <1>4, CallsType
  <2>. QED  BY <1>2, <1>4, <2>1 DEF TimerSet, Respond, Answer
<1>. QED  BY <1>3, <1>4

\* timer_cancel: nothing happens and the guest is told so, or the timer goes.
LEMMA TimerCancelFacts ==
    ASSUME IInv, NEW c \in Calls, TimerCancel(c)
    PROVE  /\ running /\ auth \in App
           /\ reply'.op = "TIMER_CANCEL"
           /\ \/ timers' = timers /\ reply'.code = None
              \/ /\ c.key \in TimerId
                 /\ timers' = Cleared(timers, c.key)
                 /\ reply'.key = c.key /\ reply'.code = "OK"
<1>1. Reached(c, "TIMER_CANCEL")
  BY DEF TimerCancel
<1>2. c.op = "TIMER_CANCEL" /\ c.rsp >= 1 /\ auth \in App /\ running
  BY <1>1, ReachedFacts DEF IInv, TypeOK, Effectful
<1>3. CASE c.key = None
  BY <1>2, <1>3 DEF TimerCancel, Return, Answer
<1>4. CASE c.key # None
  <2>1. c.key \in TimerId
    BY <1>2, <1>4, CallsType
  <2>. QED  BY <1>2, <1>4, <2>1 DEF TimerCancel, Respond, Answer
<1>. QED  BY <1>3, <1>4

\* A refused or denied call is answered with no code or an error.
LEMMA RefusalFacts ==
    ASSUME NEW c \in Calls, Refuse(c) \/ Deny(c)
    PROVE  /\ UNCHANGED <<config, timers, auth, running, limits>>
           /\ \/ reply'.code = None
              \/ reply'.code \notin {"OK", "NO_MEMORY", "NOT_AVAILABLE"}
<1>1. CASE Refuse(c)
  BY <1>1 DEF Refuse, Return, Answer
<1>2. CASE Deny(c)
  <2>1. PICK d \in Decisions(c) \ {"OK"} : Respond(c, d)
    BY <1>2 DEF Deny
  <2>2. c.rsp >= 1
    BY <1>2, GateFacts DEF Deny
  <2>3. reply'.code = d
    BY <2>1, <2>2 DEF Respond, Answer
  <2>4. d \notin {"OK", "NO_MEMORY", "NOT_AVAILABLE"}
    BY <2>1, DecisionFacts
  <2>. QED  BY <1>2, <2>3, <2>4 DEF Deny
<1>. QED  BY <1>1, <1>2


\* A table of configuration entries that all fit their slots.
ConfigFits(t) ==
    /\ ConfigTable(t)
    /\ \A i \in 1..ConfigSlots : t[i] # Free => Size[t[i].val] <= ConfigValueMax

\* The invariant, by tables.
LEMMA IInvByTables ==
    IInv <=> /\ ConfigFits(config) /\ TimerTable(timers)
             /\ auth \in App \cup {NoApp} /\ running \in BOOLEAN
             /\ limits \in [req : 1..Default.req, rsp : 1..Default.rsp]
<1>1. /\ ConfigSlots \in Nat /\ TimerSlots \in Nat
      /\ None \notin (Key \ LongKey) \cup Value /\ None \notin TimerId \cup TimerSpec
  BY HostCallAssumption
<1>. QED  BY <1>1, Zenon DEF IInv, TypeOK, ConfigFits, ConfigTable, TimerTable, IsTable

\* The tables start empty.
LEMMA InitInv == Init => IInv
<1>. SUFFICES ASSUME Init PROVE IInv
  OBVIOUS
<1>1. config = [i \in 1..ConfigSlots |-> Free] /\ timers = [i \in 1..TimerSlots |-> Free]
  BY DEF Init
<1>2. ConfigFits(config)
  BY <1>1, HostCallAssumption DEF ConfigFits, ConfigTable, IsTable, KeysUnique, Slots
<1>3. TimerTable(timers)
  BY <1>1, HostCallAssumption DEF TimerTable, IsTable, KeysUnique, Slots
<1>4. limits \in [req : 1..Default.req, rsp : 1..Default.rsp]
  BY HostCallAssumption DEF Init
<1>. QED  BY <1>2, <1>3, <1>4, IInvByTables DEF Init

\* What one step does to the tables: nothing, or one write or clear by the
\* handler whose call is answered.
LEMMA StepTables ==
    ASSUME IInv, [Next]_vars
    PROVE  /\ ConfigFits(config') /\ TimerTable(timers')
           /\ auth' \in App \cup {NoApp} /\ running' \in BOOLEAN
           /\ limits' \in [req : 1..Default.req, rsp : 1..Default.rsp]
<1>0. /\ ConfigFits(config) /\ TimerTable(timers)
      /\ auth \in App \cup {NoApp} /\ running \in BOOLEAN
      /\ limits \in [req : 1..Default.req, rsp : 1..Default.rsp]
  BY IInvByTables
<1>d. Default \in [req : 1..Default.req, rsp : 1..Default.rsp]
  BY HostCallAssumption
<1>1. ASSUME NEW a \in App, StartApp(a)
      PROVE  /\ UNCHANGED <<config, timers>> /\ auth' \in App /\ running' = TRUE
             /\ limits' \in [req : 1..Default.req, rsp : 1..Default.rsp]
  BY <1>1, LimitsType DEF StartApp
<1>2. ASSUME StopApp \/ ClearAuthorizer \/ GuestResumes \/ UNCHANGED vars
      PROVE  /\ UNCHANGED <<config, timers>> /\ auth' \in {auth, NoApp}
             /\ running' \in {running, FALSE} /\ limits' \in {limits, Default}
  BY <1>2 DEF StopApp, ClearAuthorizer, GuestResumes, vars
<1>3. ASSUME NEW c \in Calls, HostCall(c)
      PROVE  /\ ConfigFits(config') /\ TimerTable(timers')
             /\ UNCHANGED <<auth, running, limits>>
  <2>1. CASE Refuse(c) \/ Deny(c)
    BY <1>0, <2>1, RefusalFacts
  <2>2. CASE ConfigSet(c)
    <3>1. UNCHANGED <<timers, auth, running, limits>>
      BY <2>2 DEF ConfigSet
    <3>2. CASE config' = config
      BY <1>0, <3>1, <3>2
    <3>3. CASE /\ c.key \in Key \ LongKey /\ c.val \in Value
               /\ Size[c.val] <= ConfigValueMax
               /\ config' = Written(config, c.key, c.val)
      <4>1. /\ ConfigTable(config')
            /\ \A i \in 1..ConfigSlots : \/ config'[i] = config[i]
                                         \/ config'[i] = [key |-> c.key, val |-> c.val]
        BY <1>0, <3>3, WrittenFacts DEF ConfigFits, ConfigTable
      <4>. QED  BY <1>0, <3>1, <3>3, <4>1 DEF ConfigFits
    <3>. QED  BY <2>2, <3>2, <3>3, ConfigSetFacts
  <2>3. CASE ConfigDelete(c)
    <3>1. UNCHANGED <<timers, auth, running, limits>> /\ config' = Cleared(config, c.key)
      BY <2>3 DEF ConfigDelete
    <3>2. /\ ConfigTable(config')
          /\ \A i \in 1..ConfigSlots : config'[i] = config[i] \/ config'[i] = Free
      BY <1>0, <3>1, ClearedFacts DEF ConfigFits, ConfigTable
    <3>. QED  BY <1>0, <3>1, <3>2 DEF ConfigFits
  <2>4. CASE TimerSet(c)
    <3>1. UNCHANGED <<config, auth, running, limits>>
      BY <2>4 DEF TimerSet
    <3>2. \/ timers' = timers
          \/ /\ c.key \in TimerId /\ c.val \in TimerSpec
             /\ timers' = Written(timers, c.key, c.val)
      BY <2>4, TimerSetFacts
    <3>3. c.key \in TimerId /\ c.val \in TimerSpec
            => TimerTable(Written(timers, c.key, c.val))
      BY <1>0, WrittenFacts DEF TimerTable
    <3>4. TimerTable(timers')
      BY <1>0, <3>2, <3>3
    <3>. QED  BY <1>0, <3>1, <3>4
  <2>5. CASE TimerCancel(c)
    <3>1. UNCHANGED <<config, auth, running, limits>>
      BY <2>5 DEF TimerCancel
    <3>2. timers' = timers \/ timers' = Cleared(timers, c.key)
      BY <2>5, TimerCancelFacts
    <3>3. TimerTable(Cleared(timers, c.key))
      BY <1>0, ClearedFacts DEF TimerTable
    <3>. QED  BY <1>0, <3>1, <3>2, <3>3
  <2>6. CASE ConfigGet(c) \/ SysGetInfo(c)
    BY <1>0, <2>6 DEF ConfigGet, SysGetInfo
  <2>. QED  BY <1>3, <2>1, <2>2, <2>3, <2>4, <2>5, <2>6 DEF HostCall
<1>. QED  BY <1>0, <1>d, <1>1, <1>2, <1>3 DEF Next

\* Every step keeps the invariant.
LEMMA StepInv == IInv /\ [Next]_vars => IInv'
<1>. SUFFICES ASSUME IInv, [Next]_vars PROVE IInv'
  OBVIOUS
<1>1. /\ ConfigFits(config') /\ TimerTable(timers')
      /\ auth' \in App \cup {NoApp} /\ running' \in BOOLEAN
      /\ limits' \in [req : 1..Default.req, rsp : 1..Default.rsp]
  BY StepTables
<1>2. /\ KeysUnique(config') /\ KeysUnique(timers')
      /\ config' \in [1..ConfigSlots -> Slots(Key \ LongKey, Value)]
      /\ timers' \in [1..TimerSlots -> Slots(TimerId, TimerSpec)]
      /\ \A i \in 1..ConfigSlots :
            config'[i] # Free => Size[config'[i].val] <= ConfigValueMax
  BY <1>1 DEF ConfigFits, ConfigTable, TimerTable, IsTable
<1>3. TypeOK'
  BY <1>1, <1>2, Zenon DEF TypeOK
<1>4. KeysUnique(config)' /\ KeysUnique(timers)'
  BY <1>2 DEF KeysUnique
<1>. QED  BY <1>3, <1>4 DEF IInv

\* In every reachable state no table holds a key twice: wdc_hal's set handlers
\* look for the key before they take a free slot, over every order of sets,
\* overwrites and deletes.
THEOREM HostCallInv == Spec => []IInv
<1>. QED  BY InitInv, StepInv, PTL DEF Spec

\* The tables, the limits and the authorizer keep their types; no slot holds a
\* key or value config_set must refuse, and no limit exceeds its default,
\* whatever the applications' manifests ask for.
THEOREM HostCallTypeOK == Spec => []TypeOK
<1>1. IInv => TypeOK
  BY DEF IInv
<1>. QED  BY <1>1, HostCallInv, PTL


-----------------------------------------------------------------------------
(***************************************************************************)
(* The tables implement bounded maps.                                      *)
(***************************************************************************)

\* The map over D that a table stands for, and the keys it holds.
MapOf(table, D) == [k \in D |-> Lookup(table, k)]
Held(table, D) == {k \in D : MapOf(table, D)[k] # None}

\* A write puts the key if the map has room for it, and is refused only if the
\* key is new and the map is full.
LEMMA WriteIsPut ==
    ASSUME NEW n, NEW K, NEW V, NEW table, IsTable(table, n, K, V),
           NEW D, K \subseteq D, NEW k \in K, NEW v \in V
    PROVE  LET w == Written(table, k, v)
               P == Held(table, D)
           IN  \/ /\ WriteCode(table, k) = "OK"
                  /\ k \in P \/ Cardinality(P) < n
                  /\ MapOf(w, D) = [MapOf(table, D) EXCEPT ![k] = v]
               \/ /\ WriteCode(table, k) = "NO_MEMORY"
                  /\ k \notin P /\ Cardinality(P) = n
                  /\ MapOf(w, D) = MapOf(table, D)
<1>. DEFINE w == Written(table, k, v)
            P == Held(table, D)
<1>1. P = {x \in D : Lookup(table, x) # None}
  BY DEF Held, MapOf
<1>. HIDE DEF P
<1>2. /\ (\A i \in 1..n : table[i] # Free) => Cardinality(P) = n
      /\ (\E i \in 1..n : table[i] = Free) => Cardinality(P) < n
  BY <1>1, Room
<1>3. /\ SlotFor(table, k) = 0 => w = table
      /\ SlotFor(table, k) # 0 => Lookup(w, k) = v
      /\ \A x : x # k => Lookup(w, x) = Lookup(table, x)
  <2>1. /\ IsTable(w, n, K, V)
        /\ SlotFor(table, k) = 0 => w = table
        /\ SlotFor(table, k) # 0 => Lookup(w, k) = v
        /\ \A x : x # k => Lookup(w, x) = Lookup(table, x)
        /\ \A i \in 1..n : w[i] = table[i] \/ w[i] = [key |-> k, val |-> v]
    BY WrittenFacts
  <2>. QED  BY <2>1, Zenon
<1>. HIDE DEF w
<1>4. CASE SlotFor(table, k) = 0
  <2>1. Lookup(table, k) = None /\ \A i \in 1..n : table[i] # Free
    BY <1>4, SlotForFacts
  <2>. QED  BY <1>1, <1>2, <1>3, <1>4, <2>1 DEF WriteCode, w, P
<1>5. CASE SlotFor(table, k) # 0
  <2>1. k \in P \/ Cardinality(P) < n
    <3>1. \/ Lookup(table, k) # None
          \/ \E i \in 1..n : table[i] = Free
      BY <1>5, SlotForFacts
    <3>. QED  BY <1>1, <1>2, <3>1
  <2>2. MapOf(w, D) = [MapOf(table, D) EXCEPT ![k] = v]
    BY <1>3, <1>5 DEF MapOf
  <2>. QED  BY <1>5, <2>1, <2>2 DEF WriteCode, w, P
<1>. QED  BY <1>4, <1>5

\* A clear drops the key.
LEMMA ClearIsDrop ==
    ASSUME NEW n, NEW K, NEW V, NEW table, IsTable(table, n, K, V), NEW D, NEW k
    PROVE  MapOf(Cleared(table, k), D) = [MapOf(table, D) EXCEPT ![k] = None]
<1>1. /\ Lookup(Cleared(table, k), k) = None
      /\ \A x : x # k => Lookup(Cleared(table, k), x) = Lookup(table, x)
  BY ClearedFacts
<1>. QED  BY <1>1 DEF MapOf

\* A step that leaves a table alone and answers with no code or an error is an
\* aside of any map.
LEMMA ConfigAside ==
    ASSUME config' = config,
           \/ reply'.op \notin {"CONFIG_SET", "CONFIG_GET", "CONFIG_DELETE"}
           \/ reply'.ret = "RESPONSE_TOO_SMALL"
           \/ reply'.code = None
           \/ reply'.code \notin {"OK", "NO_MEMORY", "NOT_AVAILABLE"}
    PROVE  ConfigMap!Aside
BY HostCallAssumption DEF ConfigMap!Aside, ConfigMap!Lost

LEMMA TimerAside ==
    ASSUME timers' = timers,
           \/ reply'.op \notin {"TIMER_SET", "TIMER_GET", "TIMER_CANCEL"}
           \/ reply'.code = None
           \/ reply'.code \notin {"OK", "NO_MEMORY", "NOT_AVAILABLE"}
    PROVE  TimerMap!Aside
BY HostCallAssumption DEF TimerMap!Aside, TimerMap!Lost

\* Every step of the host-call path is a step of the configuration map.
LEMMA ConfigStep ==
    ASSUME IInv, [Next]_vars
    PROVE  [ConfigMap!Next]_(ConfigMap!vars)
<1>0. ConfigTable(config)
  BY TablesAre
<1>m. /\ MapOf(config, Key) = [k \in Key |-> Lookup(config, k)]
      /\ MapOf(config', Key) = [k \in Key |-> Lookup(config, k)]'
      /\ Held(config, Key) = ConfigMap!Present
  BY DEF MapOf, Held, ConfigMap!Present
<1>c. \A S : ConfigMap!Cardinality(S) = Cardinality(S)
  BY Zenon DEF Cardinality, ConfigMap!Cardinality
<1>1. CASE UNCHANGED vars
  BY <1>1 DEF vars, ConfigMap!vars
<1>2. CASE (\E a \in App : StartApp(a)) \/ StopApp \/ ClearAuthorizer \/ GuestResumes
  <2>1. config' = config /\ reply' = NoReply
    BY <1>2 DEF StartApp, StopApp, ClearAuthorizer, GuestResumes
  <2>2. reply'.code = None
    BY <2>1 DEF NoReply
  <2>. QED  BY <2>1, <2>2, ConfigAside DEF ConfigMap!Next
<1>3. ASSUME NEW c \in Calls, HostCall(c)
      PROVE  ConfigMap!Next
  <2>1. CASE Refuse(c) \/ Deny(c)
    BY <2>1, RefusalFacts, ConfigAside DEF ConfigMap!Next
  <2>2. CASE ConfigSet(c)
    <3>1. CASE config' = config /\ reply'.code = None
      BY <3>1, ConfigAside DEF ConfigMap!Next
    <3>2. CASE /\ c.key \in Key \ LongKey /\ c.val \in Value
               /\ config' = Written(config, c.key, c.val)
               /\ reply' = [op |-> "CONFIG_SET", key |-> c.key, val |-> c.val,
                            ret |-> "OK", code |-> WriteCode(config, c.key),
                            data |-> None]
      <4>1. /\ reply'.op = "CONFIG_SET" /\ reply'.key = c.key
            /\ reply'.val = c.val /\ reply'.code = WriteCode(config, c.key)
        BY <3>2
      <4>2. Key \ LongKey \subseteq Key
        OBVIOUS
      <4>3. \/ /\ WriteCode(config, c.key) = "OK"
               /\ \/ c.key \in Held(config, Key)
                  \/ Cardinality(Held(config, Key)) < ConfigSlots
               /\ MapOf(config', Key) = [MapOf(config, Key) EXCEPT ![c.key] = c.val]
            \/ /\ WriteCode(config, c.key) = "NO_MEMORY"
               /\ c.key \notin Held(config, Key)
               /\ Cardinality(Held(config, Key)) = ConfigSlots
               /\ MapOf(config', Key) = MapOf(config, Key)
        BY <1>0, <3>2, <4>2, WriteIsPut DEF ConfigTable
      <4>4. ConfigMap!Put \/ ConfigMap!Full
        BY <1>m, <1>c, <3>2, <4>1, <4>3 DEF ConfigMap!Put, ConfigMap!Full, ConfigMap!Says
      <4>. QED  BY <4>4 DEF ConfigMap!Next
    <3>. QED  BY <2>2, <3>1, <3>2, ConfigSetFacts
  <2>3. CASE ConfigGet(c)
    <3>1. config' = config
      BY <2>3 DEF ConfigGet
    <3>2. /\ reply'.op = "CONFIG_GET" /\ reply'.key = c.key
      BY <2>3, ConfigGetFacts
    <3>3. CASE reply'.code = "NOT_AVAILABLE" /\ Lookup(config, c.key) = None
      <4>1. c.key \notin Held(config, Key)
        BY <3>3 DEF Held, MapOf
      <4>2. ConfigMap!Miss
        BY <1>m, <3>1, <3>2, <3>3, <4>1 DEF ConfigMap!Miss, ConfigMap!Says
      <4>. QED  BY <4>2 DEF ConfigMap!Next
    <3>4. CASE reply'.ret = "RESPONSE_TOO_SMALL"
      BY <3>1, <3>4, ConfigAside DEF ConfigMap!Next
    <3>5. CASE /\ reply'.code = "OK" /\ reply'.data = Lookup(config, c.key)
               /\ Lookup(config, c.key) # None /\ c.key \in Key
      <4>1. c.key \in Held(config, Key) /\ reply'.data = MapOf(config, Key)[c.key]
        BY <3>5 DEF Held, MapOf
      <4>2. ConfigMap!Get
        BY <1>m, <3>1, <3>2, <3>5, <4>1 DEF ConfigMap!Get, ConfigMap!Says
      <4>. QED  BY <4>2 DEF ConfigMap!Next
    <3>. QED  BY <2>3, <3>3, <3>4, <3>5, ConfigGetFacts
  <2>4. CASE ConfigDelete(c)
    <3>1. /\ c.key \in Key /\ config' = Cleared(config, c.key)
          /\ reply'.op = "CONFIG_DELETE" /\ reply'.key = c.key /\ reply'.code = "OK"
      BY <2>4, ConfigDeleteFacts
    <3>2. MapOf(config', Key) = [MapOf(config, Key) EXCEPT ![c.key] = None]
      BY <1>0, <3>1, ClearIsDrop DEF ConfigTable
    <3>3. ConfigMap!Drop
      BY <1>m, <3>1, <3>2 DEF ConfigMap!Drop, ConfigMap!Says
    <3>. QED  BY <3>3 DEF ConfigMap!Next
  <2>5. CASE TimerSet(c) \/ TimerCancel(c)
    <3>1. config' = config
      BY <2>5 DEF TimerSet, TimerCancel
    <3>2. reply'.op \in {"TIMER_SET", "TIMER_CANCEL"}
      BY <2>5, TimerSetFacts, TimerCancelFacts
    <3>. QED  BY <3>1, <3>2, ConfigAside DEF ConfigMap!Next
  <2>6. CASE SysGetInfo(c)
    <3>1. config' = config /\ reply'.op = "SYS_GET_INFO"
      BY <2>6 DEF SysGetInfo, Reached, Return, Answer
    <3>. QED  BY <3>1, ConfigAside DEF ConfigMap!Next
  <2>. QED  BY <1>3, <2>1, <2>2, <2>3, <2>4, <2>5, <2>6 DEF HostCall
<1>. QED  BY <1>1, <1>2, <1>3 DEF Next

\* An empty table is an empty map.
LEMMA EmptyTable ==
    ASSUME NEW n, NEW D
    PROVE  MapOf([i \in 1..n |-> Free], D) = [k \in D |-> None]
<1>1. \A k : Find([i \in 1..n |-> Free], k) = 0
  BY DEF Find
<1>. QED  BY <1>1 DEF MapOf, Lookup

\* wdc_hal's configuration slots are a bounded map, and the guest's answers are
\* true of it: every step of the host-call path, over every order of sets,
\* overwrites, deletes that leave holes, refusals and responses that do not
\* fit, is a step of BoundedMap or leaves it alone.
THEOREM HostCallConfigIsMap == Spec => ConfigIsMap
<1>1. Init => ConfigMap!Init
  BY EmptyTable DEF Init, ConfigMap!Init, MapOf
<1>2. IInv /\ [Next]_vars => [ConfigMap!Next]_(ConfigMap!vars)
  BY ConfigStep
<1>. QED  BY <1>1, <1>2, HostCallInv, PTL DEF Spec, ConfigIsMap, ConfigMap!Spec


\* Every step of the host-call path is a step of the timer map.
LEMMA TimerStep ==
    ASSUME IInv, [Next]_vars
    PROVE  [TimerMap!Next]_(TimerMap!vars)
<1>0. TimerTable(timers)
  BY TablesAre
<1>m. /\ MapOf(timers, TimerId) = [k \in TimerId |-> Lookup(timers, k)]
      /\ MapOf(timers', TimerId) = [k \in TimerId |-> Lookup(timers, k)]'
      /\ Held(timers, TimerId) = TimerMap!Present
  BY DEF MapOf, Held, TimerMap!Present
<1>c. \A S : TimerMap!Cardinality(S) = Cardinality(S)
  BY Zenon DEF Cardinality, TimerMap!Cardinality
<1>1. CASE UNCHANGED vars
  BY <1>1 DEF vars, TimerMap!vars
<1>2. CASE (\E a \in App : StartApp(a)) \/ StopApp \/ ClearAuthorizer \/ GuestResumes
  <2>1. timers' = timers /\ reply' = NoReply
    BY <1>2 DEF StartApp, StopApp, ClearAuthorizer, GuestResumes
  <2>2. reply'.code = None
    BY <2>1 DEF NoReply
  <2>. QED  BY <2>1, <2>2, TimerAside DEF TimerMap!Next
<1>3. ASSUME NEW c \in Calls, HostCall(c)
      PROVE  TimerMap!Next
  <2>1. CASE Refuse(c) \/ Deny(c)
    BY <2>1, RefusalFacts, TimerAside DEF TimerMap!Next
  <2>2. CASE TimerSet(c)
    <3>1. CASE timers' = timers /\ reply'.code = None
      BY <3>1, TimerAside DEF TimerMap!Next
    <3>2. CASE /\ c.key \in TimerId /\ c.val \in TimerSpec
               /\ timers' = Written(timers, c.key, c.val)
               /\ reply'.key = c.key /\ reply'.val = c.val
               /\ reply'.code = WriteCode(timers, c.key)
      <4>1. reply'.op = "TIMER_SET"
        BY <2>2, TimerSetFacts
      <4>2. TimerId \subseteq TimerId
        OBVIOUS
      <4>3. \/ /\ WriteCode(timers, c.key) = "OK"
               /\ \/ c.key \in Held(timers, TimerId)
                  \/ Cardinality(Held(timers, TimerId)) < TimerSlots
               /\ MapOf(timers', TimerId) = [MapOf(timers, TimerId) EXCEPT ![c.key] = c.val]
            \/ /\ WriteCode(timers, c.key) = "NO_MEMORY"
               /\ c.key \notin Held(timers, TimerId)
               /\ Cardinality(Held(timers, TimerId)) = TimerSlots
               /\ MapOf(timers', TimerId) = MapOf(timers, TimerId)
        BY <1>0, <3>2, <4>2, WriteIsPut DEF TimerTable
      <4>4. TimerMap!Put \/ TimerMap!Full
        BY <1>m, <1>c, <3>2, <4>1, <4>3 DEF TimerMap!Put, TimerMap!Full, TimerMap!Says
      <4>. QED  BY <4>4 DEF TimerMap!Next
    <3>. QED  BY <2>2, <3>1, <3>2, TimerSetFacts
  <2>3. CASE TimerCancel(c)
    <3>1. CASE timers' = timers /\ reply'.code = None
      BY <3>1, TimerAside DEF TimerMap!Next
    <3>2. CASE /\ c.key \in TimerId /\ timers' = Cleared(timers, c.key)
               /\ reply'.key = c.key /\ reply'.code = "OK"
      <4>1. reply'.op = "TIMER_CANCEL"
        BY <2>3, TimerCancelFacts
      <4>2. MapOf(timers', TimerId) = [MapOf(timers, TimerId) EXCEPT ![c.key] = None]
        BY <1>0, <3>2, ClearIsDrop DEF TimerTable
      <4>3. TimerMap!Drop
        BY <1>m, <3>2, <4>1, <4>2 DEF TimerMap!Drop, TimerMap!Says
      <4>. QED  BY <4>3 DEF TimerMap!Next
    <3>. QED  BY <2>3, <3>1, <3>2, TimerCancelFacts
  <2>4. CASE ConfigSet(c) \/ ConfigGet(c) \/ ConfigDelete(c) \/ SysGetInfo(c)
    <3>1. timers' = timers /\ c.op \in ConfigOps \cup {"SYS_GET_INFO"}
      BY <2>4 DEF ConfigSet, ConfigGet, ConfigDelete, SysGetInfo, Reached, ConfigOps
    <3>2. reply'.op = c.op
      BY <2>4 DEF ConfigSet, ConfigGet, ConfigDelete, SysGetInfo, Respond, Return, Answer
    <3>. QED  BY <3>1, <3>2, TimerAside DEF TimerMap!Next, ConfigOps
  <2>. QED  BY <1>3, <2>1, <2>2, <2>3, <2>4 DEF HostCall
<1>. QED  BY <1>1, <1>2, <1>3 DEF Next

\* wdc_hal's timer slots are a bounded map: a cancelled timer is gone, an
\* overwritten one takes no second slot, and a full table refuses only a new
\* timer, for any number of slots.
THEOREM HostCallTimersAreMap == Spec => TimersAreMap
<1>1. Init => TimerMap!Init
  BY EmptyTable DEF Init, TimerMap!Init, MapOf
<1>2. IInv /\ [Next]_vars => [TimerMap!Next]_(TimerMap!vars)
  BY TimerStep
<1>. QED  BY <1>1, <1>2, HostCallInv, PTL DEF Spec, TimersAreMap, TimerMap!Spec

-----------------------------------------------------------------------------
(***************************************************************************)
(* Effects are by right.                                                   *)
(***************************************************************************)

\* What EffectsByRight says of one step.
ByRight ==
    /\ <<config, timers>>' # <<config, timers>> => running /\ auth # NoApp
    /\ \A k \in Key :
          LET v == Lookup(config', k)
          IN  v # Lookup(config, k)
                 => \E i \in DOMAIN Caps[auth] :
                       /\ k \in Caps[auth][i].keys
                       /\ "write" \in Caps[auth][i].ops
                       /\ v # None /\ Caps[auth][i].max # 0
                             => Size[v] <= Caps[auth][i].max

\* Every step is by right.
LEMMA StepByRight ==
    ASSUME IInv, [Next]_vars
    PROVE  ByRight
<1>0. ConfigTable(config) /\ NoApp \notin App
  BY TablesAre, HostCallAssumption
<1>1. CASE UNCHANGED <<config, timers>>
  BY <1>1 DEF ByRight
<1>2. ASSUME NEW c \in Calls, ConfigSet(c) PROVE ByRight
  <2>1. running /\ auth \in App
    BY <1>2, ConfigSetFacts
  <2>t. timers' = timers
    BY <1>2 DEF ConfigSet
  <2>2. CASE config' = config
    BY <1>1, <2>t, <2>2
  <2>3. CASE /\ c.key \in Key \ LongKey /\ c.val \in Value
             /\ config' = Written(config, c.key, c.val)
             /\ \E i \in DOMAIN Caps[auth] :
                   /\ c.key \in Caps[auth][i].keys
                   /\ "write" \in Caps[auth][i].ops
                   /\ Caps[auth][i].max # 0 => Size[c.val] <= Caps[auth][i].max
    <3>1. /\ SlotFor(config, c.key) = 0 => config' = config
          /\ SlotFor(config, c.key) # 0 => Lookup(config', c.key) = c.val
          /\ \A x : x # c.key => Lookup(config', x) = Lookup(config, x)
      <4>1. /\ IsTable(config, ConfigSlots, Key \ LongKey, Value)
            /\ c.key \in Key \ LongKey /\ c.val \in Value
        BY <1>0, <2>3 DEF ConfigTable
      <4>2. LET w == Written(config, c.key, c.val)
            IN  /\ IsTable(w, ConfigSlots, Key \ LongKey, Value)
                /\ SlotFor(config, c.key) = 0 => w = config
                /\ SlotFor(config, c.key) # 0 => Lookup(w, c.key) = c.val
                /\ \A x : x # c.key => Lookup(w, x) = Lookup(config, x)
                /\ \A i \in 1..ConfigSlots :
                      w[i] = config[i] \/ w[i] = [key |-> c.key, val |-> c.val]
        BY <4>1, WrittenFacts
      <4>. QED  BY <2>3, <4>2, Zenon
    <3>2. ASSUME NEW k \in Key, Lookup(config', k) # Lookup(config, k)
          PROVE  \E i \in DOMAIN Caps[auth] :
                       /\ k \in Caps[auth][i].keys
                       /\ "write" \in Caps[auth][i].ops
                       /\ Caps[auth][i].max # 0 => Size[Lookup(config', k)] <= Caps[auth][i].max
      BY <2>3, <3>1, <3>2
    <3>. QED  BY <1>0, <2>1, <3>2 DEF ByRight
  <2>. QED  BY <1>2, <2>2, <2>3, ConfigSetFacts
<1>3. ASSUME NEW c \in Calls, ConfigDelete(c) PROVE ByRight
  <2>1. /\ running /\ auth \in App /\ config' = Cleared(config, c.key)
        /\ \E i \in DOMAIN Caps[auth] :
              c.key \in Caps[auth][i].keys /\ "write" \in Caps[auth][i].ops
    BY <1>3, ConfigDeleteFacts
  <2>2. /\ Lookup(config', c.key) = None
        /\ \A x : x # c.key => Lookup(config', x) = Lookup(config, x)
    BY <1>0, <2>1, ClearedFacts DEF ConfigTable
  <2>. QED  BY <1>0, <2>1, <2>2 DEF ByRight
<1>4. ASSUME NEW c \in Calls, TimerSet(c) \/ TimerCancel(c) PROVE ByRight
  <2>1. running /\ auth \in App
    BY <1>4, TimerSetFacts, TimerCancelFacts
  <2>2. config' = config
    BY <1>4 DEF TimerSet, TimerCancel
  <2>. QED  BY <1>0, <2>1, <2>2 DEF ByRight
<1>5. ASSUME NEW c \in Calls, Refuse(c) \/ Deny(c) PROVE ByRight
  BY <1>1, <1>5, RefusalFacts
<1>6. ASSUME NEW c \in Calls, ConfigGet(c) \/ SysGetInfo(c) PROVE ByRight
  BY <1>1, <1>6 DEF ConfigGet, SysGetInfo
<1>7. ASSUME NEW a \in App, StartApp(a) PROVE ByRight
  BY <1>1, <1>7 DEF StartApp
<1>8. CASE StopApp \/ ClearAuthorizer \/ GuestResumes \/ UNCHANGED vars
  BY <1>1, <1>8 DEF StopApp, ClearAuthorizer, GuestResumes, vars
<1>. QED  BY <1>2, <1>3, <1>4, <1>5, <1>6, <1>7, <1>8 DEF Next, HostCall

\* An entry changes only while an application runs and an authorizer is
\* installed, and a configuration entry only under one capability that covers
\* its key, the write and the size of what is written: the decision of
\* wdc_caps is never that of a capability for another key or a wider limit.
THEOREM HostCallEffectsByRight == Spec => EffectsByRight
<1>1. IInv /\ [Next]_vars => [ByRight]_vars
  BY StepByRight
<1>. QED  BY <1>1, HostCallInv, PTL DEF Spec, EffectsByRight, ByRight

=============================================================================
