--------------------------- MODULE KeyStoreProofs ---------------------------
(***************************************************************************)
(* Theorems about KeyStore, for any keys, any first store and any number   *)
(* of menu processes that import and connect at once.                      *)
(***************************************************************************)
EXTENDS KeyStore, SequenceTheorems, ListProofs

NameType == Seq(Titles \cup Nat)

\* A list as every process has it: no name, key or uid twice, and no uid that
\* has not been drawn.
Good(s, n) ==
  /\ s \in Seq(Entries)
  /\ Unambiguous(s)
  /\ \A i \in DOMAIN s : s[i].uid \in 1..n \cup {NoUid}

-----------------------------------------------------------------------------
(* What the helpers return.                                                *)

\* Among Len(servers) + 1 suffixed names one is free: FreeName finds it.
LEMMA SomeNameIsFree ==
  ASSUME NEW servers \in Seq(Entries), NEW name \in NameType
  PROVE  \E k \in 2..(Len(servers) + 2) : Suffixed(name, k) \notin NamesOf(servers)
<1> DEFINE S == 2..(Len(servers) + 2)
           taken == [i \in 1..Len(servers) |-> servers[i].name]
           names == [k \in S |-> Suffixed(name, k)]
<1>1. Len(servers) \in Nat /\ DOMAIN servers = 1..Len(servers)
  OBVIOUS
<1>2. taken \in Seq(Range(taken)) /\ Len(taken) = Len(servers)
      /\ \A i \in 1..Len(servers) : taken[i] = servers[i].name
  BY <1>1 DEF Range
<1>3. \A k \in S : k \in Titles \cup Nat /\ names[k] = Suffixed(name, k)
  OBVIOUS
<1> HIDE DEF taken, names
<1>4. ASSUME NEW x \in S, NEW y \in S, names[x] = names[y] PROVE x = y
  <2>1. Suffixed(name, x)[Len(name) + 1] = x /\ Suffixed(name, y)[Len(name) + 1] = y
    BY <1>3, AppendProperties DEF Suffixed, NameType
  <2> QED BY <1>3, <1>4, <2>1
<1>5. PICK k \in S : \A i \in DOMAIN taken : taken[i] # names[k]
  BY <1>2, <1>4, OneIsFree
<1>6. DOMAIN taken = 1..Len(servers)
  BY <1>2
<1> QED BY <1>1, <1>2, <1>3, <1>5, <1>6 DEF NamesOf

LEMMA FreeNameIsFree ==
  ASSUME NEW servers \in Seq(Entries), NEW name \in NameType
  PROVE  FreeName(name, servers) \in NameType /\ FreeName(name, servers) \notin NamesOf(servers)
<1>1. CASE name \notin NamesOf(servers)
  BY <1>1 DEF FreeName
<1>2. CASE name \in NamesOf(servers)
  <2> DEFINE S == {k \in 2..(Len(servers) + 2) : Suffixed(name, k) \notin NamesOf(servers)}
             IsLeast(k) == /\ Suffixed(name, k) \notin NamesOf(servers)
                           /\ \A j \in 2..(k - 1) : Suffixed(name, j) \in NamesOf(servers)
             n == CHOOSE k \in 2..(Len(servers) + 2) : IsLeast(k)
  <2>1. S # {} /\ S \subseteq Nat
    BY SomeNameIsFree
  <2>2. PICK k \in S : \A j \in S : k <= j
    BY <2>1, LeastOne
  <2>3. k \in 2..(Len(servers) + 2) /\ IsLeast(k)
    <3>1. \A j \in 2..(k - 1) : j \in 2..(Len(servers) + 2) /\ ~(k <= j)
      BY Len(servers) \in Nat
    <3> QED BY <2>2, <3>1
  <2>4. n \in 2..(Len(servers) + 2) /\ IsLeast(n)
    <3> HIDE DEF IsLeast
    <3> QED BY <2>3
  <2>5. FreeName(name, servers) = Suffixed(name, n)
    BY <1>2 DEF FreeName
  <2>6. n \in Titles \cup Nat
    BY <2>4
  <2> HIDE DEF n
  <2>7. Suffixed(name, n) \in NameType
    BY <2>6, AppendProperties DEF Suffixed, NameType
  <2> QED BY <2>4, <2>5, <2>7
<1> QED BY <1>1, <1>2

\* An entry with a free name, a new key and a new uid.
LEMMA AppendIsGood ==
  ASSUME NEW n \in Nat, NEW s, Good(s, n), NEW e \in Entries, e.name \notin NamesOf(s),
         e.key \notin KeysOf(s), e.uid = n + 1, NoUid \notin Nat
  PROVE  /\ Good(Append(s, e), n + 1)
         /\ \A i \in DOMAIN s : i \in DOMAIN Append(s, e) /\ Append(s, e)[i] = s[i]
<1> DEFINE t == Append(s, e)  l == Len(s)
<1>1. s \in Seq(Entries) /\ l \in Nat /\ DOMAIN s = 1..l
  BY DEF Good
<1>2. /\ t \in Seq(Entries) /\ DOMAIN t = 1..(l + 1) /\ t[l + 1] = e
      /\ \A i \in 1..l : t[i] = s[i]
  BY <1>1, AppendProperties
<1>3. \A i \in 1..l : s[i].name # e.name /\ s[i].key # e.key /\ s[i].uid # e.uid
  BY <1>1 DEF Good, NamesOf, KeysOf
<1> HIDE DEF t, l
<1>4. \A i \in 1..(l + 1) : i \in 1..l \/ i = l + 1
  BY <1>1
<1>5. Unambiguous(t)
  BY <1>1, <1>2, <1>3, <1>4 DEF Unambiguous, Good
<1>6. \A i \in DOMAIN t : t[i].uid \in 1..(n + 1) \cup {NoUid}
  BY <1>1, <1>2, <1>4 DEF Good
<1> QED BY <1>1, <1>2, <1>5, <1>6 DEF Good, t, l

\* The uids drawn for the entries without one are as many as these, in order.
LEMMA NewUidsAreNew ==
  ASSUME NEW s \in Seq(Entries), uids \in Nat
  PROVE  /\ IsFiniteSet(Missing(s)) /\ Cardinality(Missing(s)) \in Nat
         /\ \A i \in Missing(s) : NewUid(i, s) \in (uids + 1)..(uids + Cardinality(Missing(s)))
         /\ \A i, j \in Missing(s) : i < j => NewUid(i, s) < NewUid(j, s)
<1> DEFINE M == Missing(s)
           To(i) == {j \in M : j <= i}
<1>1. M \subseteq 1..Len(s) /\ Len(s) \in Nat
  BY DEF Missing
<1>2. IsFiniteSet(1..Len(s))
  BY <1>1, FS_Interval
<1>3. IsFiniteSet(M) /\ Cardinality(M) \in Nat
  BY <1>1, <1>2, FS_Subset, FS_CardinalityType
<1>4. \A i : NewUid(i, s) = uids + Cardinality(To(i))
  BY DEF NewUid
<1> HIDE DEF M
<1>5. ASSUME NEW i \in M
      PROVE  /\ IsFiniteSet(To(i)) /\ Cardinality(To(i)) \in 1..Cardinality(M)
  <2>1. To(i) \in SUBSET M /\ i \in To(i)
    BY <1>1
  <2> HIDE DEF To
  <2>2. IsFiniteSet(To(i)) /\ Cardinality(To(i)) <= Cardinality(M) /\ Cardinality(To(i)) \in Nat
    BY <1>3, <2>1, FS_Subset, FS_CardinalityType
  <2>3. Cardinality(To(i)) # 0
    BY <2>1, <2>2, FS_EmptySet
  <2> QED BY <1>3, <2>2, <2>3
<1>6. ASSUME NEW i \in M, NEW j \in M, i < j
      PROVE  Cardinality(To(i)) < Cardinality(To(j))
  <2>1. To(i) \in SUBSET To(j) /\ j \in To(j) /\ j \notin To(i)
    <3>1. \A k \in M : k \in Nat
      BY <1>1
    <3>2. \A k \in M : k <= i => k <= j
      BY <1>6, <3>1
    <3>3. j <= j /\ ~(j <= i)
      BY <1>6, <3>1
    <3> QED BY <3>2, <3>3
  <2>2. IsFiniteSet(To(j)) /\ Cardinality(To(i)) \in Nat /\ Cardinality(To(j)) \in Nat
    <3> HIDE DEF To
    <3> QED BY <1>3, <1>5
  <2> HIDE DEF To
  <2>3. /\ Cardinality(To(i)) <= Cardinality(To(j))
        /\ Cardinality(To(j)) = Cardinality(To(i)) => To(j) = To(i)
    BY <2>1, <2>2, FS_Subset
  <2> QED BY <2>1, <2>2, <2>3
<1> HIDE DEF To
<1>7. \A i \in M : NewUid(i, s) \in (uids + 1)..(uids + Cardinality(M))
  BY <1>3, <1>4, <1>5
<1>8. \A i, j \in M : i < j => NewUid(i, s) < NewUid(j, s)
  <2>1. \A i \in M : Cardinality(To(i)) \in Nat
    BY <1>3, <1>5
  <2> QED BY <1>4, <1>6, <2>1
<1> QED BY <1>3, <1>7, <1>8 DEF M

\* A list whose missing uids are filled in is as good and has the same keys
\* under the same names.
LEMMA FilledIsGood ==
  ASSUME NEW s, Good(s, uids), uids \in Nat, NoUid \notin Nat, MaxUid \in Nat,
         uids + Cardinality(Missing(s)) <= MaxUid
  PROVE  /\ Good(Filled(s), uids + Cardinality(Missing(s)))
         /\ DOMAIN Filled(s) = DOMAIN s
         /\ \A i \in DOMAIN s :
              /\ Filled(s)[i].name = s[i].name /\ Filled(s)[i].key = s[i].key
              /\ Filled(s)[i].uid # NoUid
              /\ s[i].uid # NoUid => Filled(s)[i] = s[i]
<1> DEFINE t == Filled(s)  n == uids + Cardinality(Missing(s))
<1>1. s \in Seq(Entries) /\ Len(s) \in Nat /\ DOMAIN s = 1..Len(s)
  BY DEF Good
<1>2. /\ Cardinality(Missing(s)) \in Nat
      /\ \A i \in Missing(s) : NewUid(i, s) \in (uids + 1)..n
      /\ \A i, j \in Missing(s) : i < j => NewUid(i, s) < NewUid(j, s)
  BY <1>1, NewUidsAreNew
<1>3. n \in Nat /\ n <= MaxUid
  BY <1>2
<1> HIDE DEF n
<1>4. \A i \in DOMAIN s : i \in Missing(s) <=> s[i].uid = NoUid
  BY DEF Missing
<1>5. /\ DOMAIN t = DOMAIN s
      /\ \A i \in Missing(s) : t[i] = [s[i] EXCEPT !.uid = NewUid(i, s)]
      /\ \A i \in DOMAIN s : i \notin Missing(s) => t[i] = s[i]
  BY <1>4 DEF Filled, Missing
<1>6. \A i \in DOMAIN s : s[i] \in Entries
  BY <1>1, ElementOfSeq
<1>7. ASSUME NEW i \in DOMAIN s
      PROVE  /\ t[i] \in Entries /\ t[i].name = s[i].name /\ t[i].key = s[i].key
             /\ t[i].uid = IF i \in Missing(s) THEN NewUid(i, s) ELSE s[i].uid
  <2>1. CASE i \in Missing(s)
    <3>1. NewUid(i, s) \in 1..MaxUid
      BY <1>2, <1>3, <2>1
    <3>2. s[i] \in Entries /\ t[i] = [s[i] EXCEPT !.uid = NewUid(i, s)]
      BY <1>5, <1>6, <2>1
    <3> QED BY <2>1, <3>1, <3>2 DEF Entries
  <2>2. CASE i \notin Missing(s)
    BY <1>5, <1>6, <2>2
  <2> QED BY <2>1, <2>2
<1>8. t \in Seq(Entries)
  <2>1. t = [i \in 1..Len(s) |-> t[i]]
    BY <1>1, <1>5 DEF Filled
  <2> HIDE DEF t
  <2> QED BY <1>1, <1>7, <2>1
<1> HIDE DEF t
<1>9. \A i \in DOMAIN s : s[i].uid \in 1..uids \cup {NoUid}
  BY DEF Good
<1>10. \A i \in DOMAIN s : t[i].uid \in 1..n /\ t[i].uid # NoUid
  <2> TAKE i \in DOMAIN s
  <2>1. CASE i \in Missing(s)
    BY <1>2, <1>3, <1>7, <2>1
  <2>2. CASE i \notin Missing(s)
    <3>1. t[i].uid \in 1..uids
      BY <1>4, <1>7, <1>9, <2>2
    <3>2. uids <= n
      BY <1>2 DEF n
    <3> QED BY <1>3, <3>1, <3>2
  <2> QED BY <2>1, <2>2
<1>11. ASSUME NEW i \in DOMAIN s, NEW j \in DOMAIN s, i < j
       PROVE  t[i].uid # t[j].uid
  <2>1. CASE i \in Missing(s) /\ j \in Missing(s)
    BY <1>2, <1>7, <1>11, <2>1
  <2>2. CASE i \in Missing(s) /\ j \notin Missing(s)
    BY <1>2, <1>4, <1>7, <1>9, <2>2
  <2>3. CASE i \notin Missing(s) /\ j \in Missing(s)
    BY <1>2, <1>4, <1>7, <1>9, <2>3
  <2>4. CASE i \notin Missing(s) /\ j \notin Missing(s)
    BY <1>1, <1>4, <1>7, <1>11, <2>4 DEF Good, Unambiguous
  <2> QED BY <2>1, <2>2, <2>3, <2>4
<1>12. Unambiguous(t)
  <2>1. \A i, j \in DOMAIN s : i # j => i < j \/ j < i
    BY <1>1
  <2>2. \A i, j \in DOMAIN s : i # j => t[i].uid # t[j].uid
    BY <1>11, <2>1
  <2> QED BY <1>5, <1>7, <2>2 DEF Good, Unambiguous
<1> QED BY <1>5, <1>7, <1>8, <1>10, <1>12, <1>4 DEF Good, n, t

-----------------------------------------------------------------------------
(* The invariant.                                                          *)

Underway == {"connect", "ensure", "find", "spawned"}

\* While p is on its way from a click to a key, and no older list was saved over
\* the entry, the store has that entry: with what is known of its uid so far.
Follows(p) ==
  ipc[p] \in Underway /\ shown[p].key \notin dropped =>
    \E e \in Range(store) :
      /\ e.name = shown[p].name /\ e.key = shown[p].key
      /\ ipc[p] = "ensure" =>
           \E l \in Range(list[p]) : /\ l.name = e.name /\ l.key = e.key
                                     /\ l.uid # NoUid => l.uid = e.uid
      /\ ipc[p] \in {"find", "spawned"} => e.uid # NoUid
      /\ ipc[p] = "spawned" => e.uid = aimed[p]

Connected(p) ==
  result[p] \in Keys \cup {"unknown", "not in store"} =>
    result[p] = shown[p].key \/ shown[p].key \in dropped

Own(p) ==
  /\ Good(list[p], uids)
  /\ ipc[p] \in {"import", "add"} => shown[p].key \in Keys
  /\ ipc[p] = "idle" => result[p] = "none"
  /\ Follows(p)
  /\ Connected(p)

KInv ==
  /\ KeyStoreTypeOK
  /\ Good(store, uids)
  /\ \A p \in Importers : Own(p)

\* What a step leaves of the store: every entry whose key is not dropped, with
\* its uid if it had one.
Kept ==
  \A e \in Range(store) : e.key \notin dropped' =>
    \E f \in Range(store') : /\ f.name = e.name /\ f.key = e.key
                             /\ e.uid # NoUid => f.uid = e.uid

LEMMA EntriesOfSeq ==
  ASSUME NEW s \in Seq(Entries)
  PROVE  /\ \A e \in Range(s) : e \in Entries
         /\ \A i \in DOMAIN s : s[i] \in Entries /\ s[i] \in Range(s)
BY ElementOfSeq DEF Range

LEMMA EmptyIsGood == ASSUME NEW n \in Nat PROVE Good(<<>>, n)
BY DEF Good, Unambiguous

\* More uids drawn spoil no list.
LEMMA GoodStays ==
  ASSUME NEW s, NEW m \in Nat, NEW n \in Nat, m <= n, Good(s, m)
  PROVE  Good(s, n)
<1>1. \A u \in 1..m : u \in 1..n
  OBVIOUS
<1> QED BY <1>1 DEF Good

LEMMA InitKInv == KeyStoreInit => KInv
<1> SUFFICES ASSUME KeyStoreInit PROVE KInv
  OBVIOUS
<1>1. uids = FirstUids /\ uids \in 0..MaxUid /\ uids \in Nat
  BY KeyStoreAssumption DEF KeyStoreInit
<1>2. Good(store, uids)
  BY <1>1, KeyStoreAssumption DEF KeyStoreInit, Good
<1>3. [name |-> <<>>, key |-> NoUid] \in [name : Seq(Titles \cup Nat), key : Keys \cup {NoUid}]
  OBVIOUS
<1>4. KeyStoreTypeOK
  BY <1>1, <1>2, <1>3 DEF KeyStoreInit, KeyStoreTypeOK, Good, Words
<1>5. ASSUME NEW p \in Importers PROVE Own(p)
  <2>1. ipc[p] = "idle" /\ result[p] = "none" /\ list[p] = <<>>
    BY DEF KeyStoreInit
  <2>2. "none" \notin Keys \cup {"unknown", "not in store"}
    BY KeyStoreAssumption DEF Words
  <2> QED BY <1>1, <2>1, <2>2, EmptyIsGood DEF Own, Follows, Connected, Underway
<1> QED BY <1>2, <1>4, <1>5 DEF KInv

\* A process that does not move keeps its part of the invariant, whatever is
\* saved meanwhile.
LEMMA OthersKeep ==
  ASSUME KInv, NEW q \in Importers, uids' \in Nat, uids <= uids', dropped \subseteq dropped', Kept,
         ipc'[q] = ipc[q], shown'[q] = shown[q], list'[q] = list[q], aimed'[q] = aimed[q],
         result'[q] = result[q]
  PROVE  Own(q)'
<1>1. Own(q) /\ uids \in Nat
  BY DEF KInv, KeyStoreTypeOK
<1>2. Good(list[q], uids)'
  <2>1. Good(list[q], uids')
    BY <1>1, GoodStays DEF Own
  <2> QED BY <2>1 DEF Good
<1>3. Follows(q)'
  <2> SUFFICES ASSUME ipc[q] \in Underway, shown[q].key \notin dropped'
               PROVE  \E e \in Range(store') :
                        /\ e.name = shown[q].name /\ e.key = shown[q].key
                        /\ ipc[q] = "ensure" =>
                             \E l \in Range(list[q]) : /\ l.name = e.name /\ l.key = e.key
                                                       /\ l.uid # NoUid => l.uid = e.uid
                        /\ ipc[q] \in {"find", "spawned"} => e.uid # NoUid
                        /\ ipc[q] = "spawned" => e.uid = aimed[q]
    BY DEF Follows
  <2>1. PICK e \in Range(store) :
          /\ e.name = shown[q].name /\ e.key = shown[q].key
          /\ ipc[q] = "ensure" =>
               \E l \in Range(list[q]) : /\ l.name = e.name /\ l.key = e.key
                                         /\ l.uid # NoUid => l.uid = e.uid
          /\ ipc[q] \in {"find", "spawned"} => e.uid # NoUid
          /\ ipc[q] = "spawned" => e.uid = aimed[q]
    BY <1>1 DEF Own, Follows
  <2>2. PICK f \in Range(store') : f.name = e.name /\ f.key = e.key /\ (e.uid # NoUid => f.uid = e.uid)
    BY <2>1 DEF Kept
  <2>3. ipc[q] = "ensure" =>
          \E l \in Range(list[q]) : /\ l.name = f.name /\ l.key = f.key
                                    /\ l.uid # NoUid => l.uid = f.uid
    BY <2>1, <2>2
  <2> QED BY <2>1, <2>2, <2>3
<1>4. Connected(q)'
  BY <1>1 DEF Own, Connected
<1> QED BY <1>1, <1>2, <1>3, <1>4 DEF Own

\* One process moves.
LEMMA OneMoves ==
  ASSUME KInv, NEW p \in Importers, KeyStoreTypeOK', Good(store, uids)', uids <= uids',
         dropped \subseteq dropped', Kept, Own(p)',
         \A q \in Importers \ {p} :
           /\ ipc'[q] = ipc[q] /\ shown'[q] = shown[q] /\ list'[q] = list[q]
           /\ aimed'[q] = aimed[q] /\ result'[q] = result[q]
  PROVE  KInv'
<1>1. uids' \in Nat
  BY DEF KeyStoreTypeOK
<1>2. \A q \in Importers : Own(q)'
  BY <1>1, OthersKeep
<1> QED BY <1>2 DEF KInv

\* A list that was loaded is saved with its entries in it.
LEMMA SaveKeeps ==
  ASSUME KInv, NEW p \in Importers, NEW new, SaveServers(new, list[p]),
         \A l \in Range(list[p]) : \E f \in Range(new) :
           f.name = l.name /\ f.key = l.key /\ (l.uid # NoUid => f.uid = l.uid)
  PROVE  Kept /\ dropped \subseteq dropped' /\ dropped' \subseteq Keys
<1>1. store' = new /\ dropped' = dropped \cup {e.key : e \in Range(store) \ Range(list[p])}
  BY DEF SaveServers
<1>2. \A e \in Range(store) : e.key \in Keys
  <2>1. store \in Seq(Entries)
    BY DEF KInv, Good
  <2> QED BY <2>1, EntriesOfSeq DEF Entries
<1>3. dropped' \subseteq Keys
  BY <1>1, <1>2 DEF KInv, KeyStoreTypeOK
<1> QED BY <1>1, <1>3 DEF Kept

-----------------------------------------------------------------------------
(* One lemma for each operation.                                           *)

\* p's own variables after a Put, and everybody else's.
LEMMA PutAt ==
  ASSUME NEW f, DOMAIN f = Importers, NEW p \in Importers, NEW v
  PROVE  Put(f, p, v)[p] = v /\ \A q \in Importers \ {p} : Put(f, p, v)[q] = f[q]
BY DEF Put

LEMMA Typed ==
  ASSUME KInv
  PROVE  /\ DOMAIN ipc = Importers /\ DOMAIN shown = Importers /\ DOMAIN list = Importers
         /\ DOMAIN aimed = Importers /\ DOMAIN result = Importers
         /\ uids \in Nat /\ uids \in 0..MaxUid /\ store \in Seq(Entries) /\ dropped \subseteq Keys
         /\ Unambiguous(store)
BY DEF KInv, KeyStoreTypeOK, Good

LEMMA NothingSaved == ASSUME UNCHANGED <<store, dropped>> PROVE Kept /\ dropped \subseteq dropped'
BY DEF Kept

LEMMA StartKeepsInv ==
  ASSUME KInv, NEW p \in Importers,
         (\E key \in Keys, name \in Names : StartImport(p, key, name))
           \/ \E i \in DOMAIN store : StartConnect(p, i)
  PROVE  KInv'
<1> USE Typed
<1>1. PICK place \in {"import", "connect"}, name \in NameType, key \in Keys :
        /\ ipc[p] = "idle" /\ ipc' = Put(ipc, p, place)
        /\ shown' = Put(shown, p, [name |-> name, key |-> key])
        /\ UNCHANGED <<store, uids, list, aimed, result, dropped>>
        /\ place = "connect" => \E e \in Range(store) : e.name = name /\ e.key = key
  <2>1. ASSUME NEW key \in Keys, NEW name \in Names, StartImport(p, key, name)
        PROVE  name \in NameType
    <3>1. PICK t \in Titles : name = <<t>> \/ name = <<t, 2>>
      BY DEF Names
    <3>2. t \in Titles \cup Nat /\ 2 \in Titles \cup Nat
      OBVIOUS
    <3>3. <<t>> \in NameType /\ <<t, 2>> \in NameType
      BY <3>2 DEF NameType
    <3> QED BY <3>1, <3>3
  <2>2. ASSUME NEW i \in DOMAIN store, StartConnect(p, i)
        PROVE  /\ store[i].name \in NameType /\ store[i].key \in Keys
               /\ store[i] \in Range(store)
    BY EntriesOfSeq DEF NameType, Entries
  <2>3. CASE \E key \in Keys, name \in Names : StartImport(p, key, name)
    BY <2>1, <2>3 DEF StartImport
  <2>4. CASE \E i \in DOMAIN store : StartConnect(p, i)
    BY <2>2, <2>4 DEF StartConnect
  <2> QED BY <2>3, <2>4
<1>2. [name |-> name, key |-> key] \in [name : Seq(Titles \cup Nat), key : Keys \cup {NoUid}]
  BY DEF NameType
<1>3. KeyStoreTypeOK'
  BY <1>1, <1>2 DEF KInv, KeyStoreTypeOK, Put
<1>4. ipc'[p] = place /\ shown'[p] = [name |-> name, key |-> key]
  BY <1>1, PutAt
<1>5. Own(p)'
  <2>1. Own(p) /\ result[p] = "none" /\ "none" \notin Keys \cup {"unknown", "not in store"}
    BY <1>1, KeyStoreAssumption DEF KInv, Own, Words
  <2>2. Good(list[p], uids)'
    BY <1>1, <2>1 DEF Own, Good
  <2>3. Follows(p)'
    BY <1>1, <1>4 DEF Follows, Underway
  <2>4. Connected(p)'
    BY <1>1, <2>1 DEF Connected
  <2> QED BY <1>1, <1>4, <2>2, <2>3, <2>4 DEF Own
<1>6. \A q \in Importers \ {p} : ipc'[q] = ipc[q] /\ shown'[q] = shown[q]
  BY <1>1, PutAt
<1>7. Good(store, uids)'
  BY <1>1 DEF KInv, Good
<1> QED BY <1>1, <1>3, <1>5, <1>6, <1>7, NothingSaved, OneMoves

LEMMA LoadsKeepsInv ==
  ASSUME KInv, NEW p \in Importers, Loads(p, "import", "add") \/ Loads(p, "connect", "ensure")
  PROVE  KInv'
<1> USE Typed
<1>1. PICK from \in {"import", "connect"}, to \in {"add", "ensure"} :
        /\ Loads(p, from, to) /\ (to = "add" <=> from = "import")
  OBVIOUS
<1>2. /\ ipc[p] = from /\ ipc' = Put(ipc, p, to) /\ list' = Put(list, p, store)
      /\ UNCHANGED <<store, uids, shown, aimed, result, dropped>>
  BY <1>1 DEF Loads
<1>3. KeyStoreTypeOK'
  BY <1>2 DEF KInv, KeyStoreTypeOK, Put
<1>4. ipc'[p] = to /\ list'[p] = store
  BY <1>2, PutAt
<1>5. Good(store, uids)'
  BY <1>2 DEF KInv, Good
<1>6. Own(p)'
  <2>1. Own(p)
    BY DEF KInv
  <2>2. Good(list[p], uids)'
    BY <1>2, <1>4, <1>5
  <2>3. Follows(p)'
    BY <1>1, <1>2, <1>4, <2>1 DEF Own, Follows, Underway
  <2> QED BY <1>1, <1>2, <1>4, <2>1, <2>2, <2>3 DEF Own, Connected
<1>7. \A q \in Importers \ {p} : ipc'[q] = ipc[q] /\ list'[q] = list[q]
  BY <1>2, PutAt
<1> QED BY <1>2, <1>3, <1>5, <1>6, <1>7, NothingSaved, OneMoves

\* An import that is refused or done, and a keeper's end.
LEMMA EndsKeepsOwn ==
  ASSUME KInv, NEW p \in Importers, NEW what \in Keys \cup Words, Ends(p, what),
         what \in Keys \cup {"unknown", "not in store"} => what = shown[p].key \/ shown[p].key \in dropped',
         dropped \subseteq dropped', uids' \in Nat
  PROVE  Own(p)' /\ \A q \in Importers \ {p} :
           /\ ipc'[q] = ipc[q] /\ shown'[q] = shown[q] /\ list'[q] = list[q]
           /\ aimed'[q] = aimed[q] /\ result'[q] = result[q]
<1>0. /\ DOMAIN ipc = Importers /\ DOMAIN result = Importers /\ DOMAIN list = Importers
      /\ ipc' = Put(ipc, p, "done") /\ result' = Put(result, p, what) /\ list' = Put(list, p, <<>>)
      /\ UNCHANGED <<shown, aimed>>
  BY Typed DEF Ends
<1>1. ipc'[p] = "done" /\ result'[p] = what /\ list'[p] = <<>> /\ UNCHANGED <<shown, aimed>>
  BY <1>0 DEF Put
<1>2. Good(list[p], uids)'
  BY <1>1, EmptyIsGood
<1>3. Own(p)'
  BY <1>1, <1>2 DEF Own, Follows, Connected, Underway
<1>4. \A q \in Importers \ {p} : ipc'[q] = ipc[q] /\ list'[q] = list[q] /\ result'[q] = result[q]
  BY <1>0 DEF Put
<1> QED BY <1>1, <1>3, <1>4

LEMMA ImportKeepsInv ==
  ASSUME KInv, NEW p \in Importers, AlreadyImported(p) \/ AddServer(p)
  PROVE  KInv' /\ Kept
<1> USE Typed
<1>1. {"refused", "imported"} \subseteq Words /\ Keys \cap Words = {}
      /\ NoUid \notin Nat /\ MaxUid \in Nat
  BY KeyStoreAssumption DEF Words
<1>2. CASE AlreadyImported(p)
  <2>1. Ends(p, "refused") /\ UNCHANGED <<store, uids, dropped>>
    BY <1>2 DEF AlreadyImported
  <2>2. KeyStoreTypeOK'
    BY <1>1, <2>1 DEF Ends, KInv, KeyStoreTypeOK, Put
  <2>3. Good(store, uids)'
    BY <2>1 DEF KInv, Good
  <2>4. Kept /\ dropped \subseteq dropped'
    BY <2>1, NothingSaved
  <2>5. "refused" \in Keys \cup Words /\ "refused" \notin Keys \cup {"unknown", "not in store"}
    BY <1>1
  <2>6. Own(p)' /\ \A q \in Importers \ {p} :
          /\ ipc'[q] = ipc[q] /\ shown'[q] = shown[q] /\ list'[q] = list[q]
          /\ aimed'[q] = aimed[q] /\ result'[q] = result[q]
    BY <2>1, <2>4, <2>5, EndsKeepsOwn
  <2> QED BY <2>1, <2>2, <2>3, <2>4, <2>6, OneMoves
<1>3. CASE AddServer(p)
  <2> DEFINE e == [name |-> FreeName(shown[p].name, list[p]), key |-> shown[p].key, uid |-> uids + 1]
             new == Append(list[p], e)
  <2>1. /\ ipc[p] = "add" /\ uids < MaxUid /\ shown[p].key \notin KeysOf(list[p])
        /\ uids' = uids + 1 /\ SaveServers(new, list[p]) /\ Ends(p, "imported")
    BY <1>3 DEF AddServer
  <2>2. Own(p) /\ Good(list[p], uids) /\ list[p] \in Seq(Entries)
        /\ shown[p].name \in NameType /\ shown[p].key \in Keys
    BY <2>1 DEF KInv, Own, Good, KeyStoreTypeOK, NameType
  <2>3. /\ FreeName(shown[p].name, list[p]) \in NameType
        /\ FreeName(shown[p].name, list[p]) \notin NamesOf(list[p])
    BY <2>2, FreeNameIsFree
  <2>4. e \in Entries /\ e.uid = uids + 1 /\ e.key = shown[p].key
        /\ e.name = FreeName(shown[p].name, list[p])
    BY <1>1, <2>1, <2>2, <2>3 DEF Entries, NameType
  <2> HIDE DEF e
  <2>5. /\ Good(new, uids + 1)
        /\ \A i \in DOMAIN list[p] : i \in DOMAIN new /\ new[i] = list[p][i]
    BY <1>1, <2>1, <2>2, <2>3, <2>4, AppendIsGood
  <2> HIDE DEF new
  <2>6. \A l \in Range(list[p]) : l \in Range(new)
    BY <2>5 DEF Range
  <2>7. Kept /\ dropped \subseteq dropped' /\ dropped' \subseteq Keys
    BY <2>1, <2>6, SaveKeeps
  <2>8. Good(store, uids)'
    BY <2>1, <2>5 DEF SaveServers
  <2>9. KeyStoreTypeOK'
    <3>1. uids' \in 0..MaxUid /\ store' \in Seq(Entries)
      BY <1>1, <2>1, <2>8 DEF Good
    <3> QED BY <1>1, <2>1, <2>7, <3>1 DEF Ends, KInv, KeyStoreTypeOK, Put
  <2>12. uids' \in Nat /\ uids <= uids'
    BY <2>1
  <2>10. "imported" \in Keys \cup Words /\ "imported" \notin Keys \cup {"unknown", "not in store"}
    BY <1>1
  <2>11. Own(p)' /\ \A q \in Importers \ {p} :
           /\ ipc'[q] = ipc[q] /\ shown'[q] = shown[q] /\ list'[q] = list[q]
           /\ aimed'[q] = aimed[q] /\ result'[q] = result[q]
    BY <2>1, <2>7, <2>10, <2>12, EndsKeepsOwn
  <2> QED BY <2>7, <2>8, <2>9, <2>11, <2>12, OneMoves
<1> QED BY <1>2, <1>3

LEMMA EnsureKeepsInv ==
  ASSUME KInv, NEW p \in Importers, EnsureUids(p)
  PROVE  KInv' /\ Kept
<1> USE Typed
<1> DEFINE s == list[p]  n == Cardinality(Missing(list[p]))
<1>1. NoUid \notin Nat /\ MaxUid \in Nat
  BY KeyStoreAssumption
<1>2. /\ ipc[p] = "ensure" /\ uids + n <= MaxUid /\ uids' = uids + n
      /\ IF Missing(s) = {} THEN UNCHANGED <<store, dropped>> ELSE SaveServers(Filled(s), s)
      /\ ipc' = Put(ipc, p, "find") /\ list' = Put(list, p, <<>>)
      /\ UNCHANGED <<shown, aimed, result>>
  BY DEF EnsureUids
<1>3. Own(p) /\ Good(s, uids) /\ s \in Seq(Entries)
  BY DEF KInv, Own, Good
<1>4. n \in Nat
  BY <1>3, NewUidsAreNew
<1>5. /\ Good(Filled(s), uids + n) /\ DOMAIN Filled(s) = DOMAIN s
      /\ \A i \in DOMAIN s :
           /\ Filled(s)[i].name = s[i].name /\ Filled(s)[i].key = s[i].key
           /\ Filled(s)[i].uid # NoUid
           /\ s[i].uid # NoUid => Filled(s)[i] = s[i]
  BY <1>1, <1>2, <1>3, FilledIsGood
<1> HIDE DEF n
<1>6. \A l \in Range(s) : \E f \in Range(Filled(s)) :
        /\ f.name = l.name /\ f.key = l.key /\ f.uid # NoUid
        /\ l.uid # NoUid => f.uid = l.uid
  BY <1>5 DEF Range
<1>7. Kept /\ dropped \subseteq dropped' /\ dropped' \subseteq Keys /\ Good(store, uids)'
  <2>1. CASE Missing(s) = {}
    <3>1. UNCHANGED <<store, dropped>>
      BY <1>2, <2>1
    <3>2. Good(store, uids')
      BY <1>2, <1>4, GoodStays DEF KInv
    <3> QED BY <3>1, <3>2, NothingSaved
  <2>2. CASE Missing(s) # {}
    <3>1. SaveServers(Filled(s), s)
      BY <1>2, <2>2
    <3>2. Kept /\ dropped \subseteq dropped' /\ dropped' \subseteq Keys
      BY <1>6, <3>1, SaveKeeps
    <3> QED BY <1>2, <1>5, <3>1, <3>2 DEF SaveServers
  <2> QED BY <2>1, <2>2
<1>8. KeyStoreTypeOK'
  <2>1. uids' \in 0..MaxUid /\ store' \in Seq(Entries)
    BY <1>1, <1>2, <1>4, <1>7 DEF Good
  <2> QED BY <1>2, <1>7, <2>1 DEF KInv, KeyStoreTypeOK, Put
<1>9. ipc'[p] = "find" /\ list'[p] = <<>>
  BY <1>2, PutAt
<1>10. Follows(p)'
  <2> SUFFICES ASSUME shown[p].key \notin dropped'
               PROVE  \E e \in Range(store') :
                        e.name = shown[p].name /\ e.key = shown[p].key /\ e.uid # NoUid
    BY <1>2, <1>9 DEF Follows
  <2>1. PICK e \in Range(store) :
          /\ e.name = shown[p].name /\ e.key = shown[p].key
          /\ \E l \in Range(s) : /\ l.name = e.name /\ l.key = e.key
                                 /\ l.uid # NoUid => l.uid = e.uid
    BY <1>2, <1>3, <1>7 DEF Own, Follows, Underway
  <2>2. PICK l \in Range(s) : l.name = e.name /\ l.key = e.key /\ (l.uid # NoUid => l.uid = e.uid)
    BY <2>1
  <2>3. CASE Missing(s) = {}
    <3>1. l.uid # NoUid
      BY <2>3 DEF Missing, Range
    <3> QED BY <1>2, <2>1, <2>2, <2>3, <3>1
  <2>4. CASE Missing(s) # {}
    <3>1. store' = Filled(s)
      BY <1>2, <2>4 DEF SaveServers
    <3> QED BY <1>6, <2>1, <2>2, <3>1
  <2> QED BY <2>3, <2>4
<1>11. Own(p)'
  <2>1. Good(list[p], uids)'
    BY <1>2, <1>4, <1>9, EmptyIsGood
  <2> QED BY <1>2, <1>3, <1>7, <1>9, <1>10, <2>1 DEF Own, Connected
<1>12. \A q \in Importers \ {p} : ipc'[q] = ipc[q] /\ list'[q] = list[q]
  BY <1>2, PutAt
<1> QED BY <1>2, <1>4, <1>7, <1>8, <1>11, <1>12, OneMoves

\* The name finds the entry that was clicked: it has that very name, and nothing
\* else in the store has.
LEMMA FoundIsClicked ==
  ASSUME KInv, NEW p \in Importers, ipc[p] = "find", shown[p].key \notin dropped
  PROVE  \E i \in DOMAIN store :
           /\ FoundBy(shown[p].name) = {i}
           /\ store[i].key = shown[p].key /\ store[i].uid # NoUid
<1> DEFINE name == shown[p].name
           exact == {i \in DOMAIN store : store[i].name = name}
<1>1. PICK e \in Range(store) : e.name = name /\ e.key = shown[p].key /\ e.uid # NoUid
  BY DEF KInv, Own, Follows, Underway
<1>2. PICK i \in DOMAIN store : store[i] = e
  BY DEF Range
<1>3. exact = {i}
  BY <1>1, <1>2, Typed DEF Unambiguous
<1>4. i \in Nat
  BY Typed
<1>5. FoundBy(name) = {CHOOSE k \in exact : \A j \in exact : k <= j}
  BY <1>3 DEF FoundBy
<1> HIDE DEF exact
<1>6. (CHOOSE k \in exact : \A j \in exact : k <= j) = i
  BY <1>3, <1>4
<1> QED BY <1>1, <1>2, <1>5, <1>6

LEMMA FoundInStore ==
  ASSUME KInv, NEW name
  PROVE  FoundBy(name) \subseteq DOMAIN store
<1> DEFINE exact == {i \in DOMAIN store : store[i].name = name}
           sub   == {i \in DOMAIN store : Within(name, store[i].name)}
<1>1. exact \in SUBSET Nat /\ exact \subseteq DOMAIN store /\ sub \subseteq DOMAIN store
  BY Typed
<1>2. exact # {} => (CHOOSE i \in exact : \A j \in exact : i <= j) \in exact
  <2> HIDE DEF exact
  <2>1. exact # {} => \E i \in exact : \A j \in exact : i <= j
    BY <1>1, LeastOne
  <2> QED BY <2>1
<1>3. FoundBy(name) = IF exact # {} THEN {CHOOSE i \in exact : \A j \in exact : i <= j}
                      ELSE IF Cardinality(sub) = 1 THEN sub ELSE {}
  BY DEF FoundBy
<1> HIDE DEF exact, sub
<1> QED BY <1>1, <1>2, <1>3

LEMMA FindKeepsInv ==
  ASSUME KInv, NEW p \in Importers, Find(p)
  PROVE  KInv'
<1> USE Typed
<1> DEFINE good == {i \in FoundBy(shown[p].name) :
                      KindOf[store[i].key] = KindOf[shown[p].key] /\ store[i].uid # NoUid}
<1>1. /\ ipc[p] = "find" /\ UNCHANGED <<store, uids, dropped>>
      /\ \/ good = {} /\ Ends(p, "unknown")
         \/ \E i \in good : /\ ipc' = Put(ipc, p, "spawned") /\ aimed' = Put(aimed, p, store[i].uid)
                            /\ UNCHANGED <<shown, list, result>>
  BY DEF Find
<1>2. Kept /\ dropped \subseteq dropped' /\ uids <= uids' /\ uids' \in Nat /\ Good(store, uids)'
  BY <1>1, NothingSaved DEF KInv, Good
<1>3. ASSUME shown[p].key \notin dropped
      PROVE  \E k \in DOMAIN store : /\ k \in good /\ \A i \in good : i = k
                                     /\ store[k].name = shown[p].name
                                     /\ store[k].key = shown[p].key /\ store[k].uid # NoUid
  <2>1. PICK k \in DOMAIN store :
          /\ FoundBy(shown[p].name) = {k}
          /\ store[k].key = shown[p].key /\ store[k].uid # NoUid
    BY <1>1, <1>3, FoundIsClicked
  <2>2. store[k].name = shown[p].name
    <3>1. PICK e \in Range(store) : e.name = shown[p].name /\ e.key = shown[p].key
      BY <1>1, <1>3 DEF KInv, Own, Follows, Underway
    <3>2. PICK j \in DOMAIN store : store[j] = e
      BY DEF Range
    <3> QED BY <2>1, <3>1, <3>2 DEF Unambiguous
  <2> QED BY <2>1, <2>2
<1> HIDE DEF good
<1>4. CASE good = {} /\ Ends(p, "unknown")
  <2>1. shown[p].key \in dropped
    BY <1>3, <1>4
  <2>2. KeyStoreTypeOK'
    <3>1. /\ ipc' = Put(ipc, p, "done") /\ result' = Put(result, p, "unknown")
          /\ list' = Put(list, p, <<>>) /\ UNCHANGED <<store, uids, dropped, shown, aimed>>
      BY <1>1, <1>4 DEF Ends
    <3>2. "unknown" \in Words /\ <<>> \in Seq(Entries)
      BY DEF Words
    <3> QED BY <3>1, <3>2 DEF KInv, KeyStoreTypeOK, Put
  <2>3. Own(p)' /\ \A q \in Importers \ {p} :
          /\ ipc'[q] = ipc[q] /\ shown'[q] = shown[q] /\ list'[q] = list[q]
          /\ aimed'[q] = aimed[q] /\ result'[q] = result[q]
    <3>1. "unknown" \in Keys \cup Words /\ shown[p].key \in dropped'
      BY <1>1, <2>1 DEF Words
    <3> QED BY <1>2, <1>4, <3>1, EndsKeepsOwn
  <2> QED BY <1>2, <2>2, <2>3, OneMoves
<1>5. ASSUME NEW i \in good, ipc' = Put(ipc, p, "spawned"), aimed' = Put(aimed, p, store[i].uid),
             UNCHANGED <<shown, list, result>>
      PROVE  KInv'
  <2>1. ipc'[p] = "spawned" /\ aimed'[p] = store[i].uid
    BY <1>5 DEF Put
  <2>2. store[i].uid \in Nat
    <3>1. i \in DOMAIN store /\ store[i].uid # NoUid
      BY FoundInStore DEF good
    <3> QED BY <3>1 DEF KInv, Good
  <2>3. KeyStoreTypeOK'
    BY <1>1, <1>5, <2>2 DEF KInv, KeyStoreTypeOK, Put
  <2>4. Own(p)
    BY DEF KInv
  <2>5. Good(list[p], uids)'
    BY <1>1, <1>5, <2>4 DEF Own, Good
  <2>6. Follows(p)'
    <3> SUFFICES ASSUME shown[p].key \notin dropped
                 PROVE  \E e \in Range(store) : /\ e.name = shown[p].name /\ e.key = shown[p].key
                                                /\ e.uid # NoUid /\ e.uid = aimed'[p]
      BY <1>1, <1>5, <2>1 DEF Follows, Underway
    <3>1. i \in DOMAIN store /\ store[i].name = shown[p].name /\ store[i].key = shown[p].key
          /\ store[i].uid # NoUid
      BY <1>3
    <3> QED BY <2>1, <3>1 DEF Range
  <2>7. Own(p)'
    BY <1>1, <1>5, <2>1, <2>4, <2>5, <2>6 DEF Own, Connected
  <2>8. \A q \in Importers \ {p} : ipc'[q] = ipc[q] /\ aimed'[q] = aimed[q]
    BY <1>5 DEF Put
  <2> QED BY <1>2, <1>5, <2>3, <2>7, <2>8, OneMoves
<1> QED BY <1>1, <1>4, <1>5

\* The keeper finds what it was spawned for: no other entry has that uid.
LEMMA KeeperKeepsInv ==
  ASSUME KInv, NEW p \in Importers, KeeperLooksUp(p)
  PROVE  KInv'
<1> USE Typed
<1> DEFINE found == {i \in DOMAIN store : store[i].uid = aimed[p]}
           what == IF found = {} THEN "not in store"
                   ELSE store[CHOOSE i \in found : \A j \in found : i <= j].key
<1>1. ipc[p] = "spawned" /\ Ends(p, what) /\ UNCHANGED <<store, uids, dropped>>
  BY DEF KeeperLooksUp
<1>2. shown[p].key \notin dropped => what = shown[p].key
  <2> SUFFICES ASSUME shown[p].key \notin dropped PROVE what = shown[p].key
    OBVIOUS
  <2>1. PICK e \in Range(store) : e.key = shown[p].key /\ e.uid # NoUid /\ e.uid = aimed[p]
    BY <1>1 DEF KInv, Own, Follows, Underway
  <2>2. PICK i \in DOMAIN store : store[i] = e
    BY DEF Range
  <2>3. found = {i} /\ i \in Nat
    BY <2>1, <2>2 DEF Unambiguous
  <2> HIDE DEF found
  <2>4. (CHOOSE k \in found : \A j \in found : k <= j) = i
    BY <2>3
  <2> QED BY <2>1, <2>2, <2>3, <2>4
<1>3. what \in Keys \cup Words
  <2>1. CASE found = {}
    BY <2>1 DEF Words
  <2>2. CASE found # {}
    <3>1. found \subseteq Nat
      OBVIOUS
    <3>2. \E k \in found : \A j \in found : k <= j
      <4> HIDE DEF found
      <4> QED BY <2>2, <3>1, LeastOne
    <3>3. (CHOOSE k \in found : \A j \in found : k <= j) \in found
      <4> HIDE DEF found
      <4> QED BY <3>2
    <3>4. (CHOOSE k \in found : \A j \in found : k <= j) \in DOMAIN store
      BY <3>3
    <3> HIDE DEF found
    <3> QED BY <2>2, <3>4, EntriesOfSeq DEF Entries
  <2> QED BY <2>1, <2>2
<1> HIDE DEF what
<1>4. Kept /\ dropped \subseteq dropped' /\ uids <= uids' /\ uids' \in Nat /\ Good(store, uids)'
  BY <1>1, NothingSaved DEF KInv, Good
<1>5. KeyStoreTypeOK'
  BY <1>1, <1>3 DEF Ends, KInv, KeyStoreTypeOK, Put
<1>6. Own(p)' /\ \A q \in Importers \ {p} :
        /\ ipc'[q] = ipc[q] /\ shown'[q] = shown[q] /\ list'[q] = list[q]
        /\ aimed'[q] = aimed[q] /\ result'[q] = result[q]
  BY <1>1, <1>2, <1>3, <1>4, EndsKeepsOwn
<1> QED BY <1>4, <1>5, <1>6, OneMoves

LEMMA LeavesKeepsInv ==
  ASSUME KInv, NEW p \in Importers, Leaves(p)
  PROVE  KInv'
<1> USE Typed
<1>1. /\ ipc' = Put(ipc, p, "idle") /\ result' = Put(result, p, "none")
      /\ aimed' = Put(aimed, p, NoUid) /\ shown' = Put(shown, p, [name |-> <<>>, key |-> NoUid])
      /\ UNCHANGED <<store, uids, list, dropped>>
  BY DEF Leaves
<1>2. Kept /\ dropped \subseteq dropped' /\ uids <= uids' /\ Good(store, uids)'
  BY <1>1, NothingSaved DEF KInv, Good
<1>3. [name |-> <<>>, key |-> NoUid] \in [name : Seq(Titles \cup Nat), key : Keys \cup {NoUid}]
  OBVIOUS
<1>4. KeyStoreTypeOK'
  BY <1>1, <1>3 DEF KInv, KeyStoreTypeOK, Put, Words
<1>5. ipc'[p] = "idle" /\ result'[p] = "none"
  BY <1>1 DEF Put
<1>6. "none" \notin Keys \cup {"unknown", "not in store"}
  BY KeyStoreAssumption DEF Words
<1>7. Good(list[p], uids)'
  BY <1>1 DEF KInv, Own, Good
<1>8. Own(p)'
  BY <1>5, <1>6, <1>7 DEF Own, Follows, Connected, Underway
<1>9. \A q \in Importers \ {p} : /\ ipc'[q] = ipc[q] /\ shown'[q] = shown[q]
                                 /\ aimed'[q] = aimed[q] /\ result'[q] = result[q]
  BY <1>1 DEF Put
<1> QED BY <1>1, <1>2, <1>4, <1>8, <1>9, OneMoves

\* Every step keeps the invariant, and every entry of the store but those whose
\* key it drops.
LEMMA StepKeepsKInv == KInv /\ [KeyStoreNext]_keyVars => KInv' /\ Kept
<1> SUFFICES ASSUME KInv, [KeyStoreNext]_keyVars PROVE KInv' /\ Kept
  OBVIOUS
<1>1. CASE UNCHANGED keyVars
  <2>1. KInv'
    BY <1>1 DEF keyVars, menuKeys, KInv, KeyStoreTypeOK, Good, Own, Follows, Connected
  <2> QED BY <1>1, <2>1, NothingSaved DEF keyVars
<1>2. ASSUME NEW p \in Importers, KeyStoreStep(p) PROVE KInv' /\ Kept
  <2>1. CASE (\E key \in Keys, name \in Names : StartImport(p, key, name))
               \/ \E i \in DOMAIN store : StartConnect(p, i)
    <3>1. UNCHANGED <<store, dropped>>
      BY <2>1 DEF StartImport, StartConnect
    <3> QED BY <2>1, <3>1, StartKeepsInv, NothingSaved
  <2>2. CASE Loads(p, "import", "add") \/ Loads(p, "connect", "ensure")
    BY <2>2, LoadsKeepsInv, NothingSaved DEF Loads
  <2>3. CASE AlreadyImported(p) \/ AddServer(p)
    BY <2>3, ImportKeepsInv
  <2>4. CASE EnsureUids(p)
    BY <2>4, EnsureKeepsInv
  <2>5. CASE Find(p)
    BY <2>5, FindKeepsInv, NothingSaved DEF Find
  <2>6. CASE KeeperLooksUp(p)
    BY <2>6, KeeperKeepsInv, NothingSaved DEF KeeperLooksUp
  <2>7. CASE Leaves(p)
    BY <2>7, LeavesKeepsInv, NothingSaved DEF Leaves
  <2> QED BY <1>2, <2>1, <2>2, <2>3, <2>4, <2>5, <2>6, <2>7 DEF KeyStoreStep
<1> QED BY <1>1, <1>2 DEF KeyStoreNext

LEMMA KInvariant == KeyStoreSpec => []KInv
<1>1. KInv /\ [KeyStoreNext]_keyVars => KInv'
  BY StepKeepsKInv
<1> QED BY <1>1, InitKInv, PTL DEF KeyStoreSpec

-----------------------------------------------------------------------------

\* Type correctness, for any keys and menu processes.
THEOREM KeyStoreTypeCorrect == KeyStoreSpec => []KeyStoreTypeOK
BY KInvariant, PTL DEF KInv

\* However many menus import and draw uids at once, and whichever of their saves
\* is lost, the file holds no key, no name and no uid twice.
THEOREM StoreAlwaysUnambiguous == KeyStoreSpec => []StoreUnambiguous
<1>1. KInv => StoreUnambiguous
  BY DEF KInv, Good, StoreUnambiguous
<1> QED BY <1>1, KInvariant, PTL

\* A click connects to the key of its row, through a name, a uid and three
\* readings of the file, unless an older list was saved over that entry.
THEOREM ConnectsAlwaysToTheClicked == KeyStoreSpec => []ConnectsToTheClicked
<1>1. KInv => ConnectsToTheClicked
  BY DEF KInv, Own, Connected, ConnectsToTheClicked
<1> QED BY <1>1, KInvariant, PTL

\* An entry with a uid leaves the file only when an older list is saved over it.
THEOREM EntriesAlwaysKept == KeyStoreSpec => EntriesKept
<1>1. KInv /\ [KeyStoreNext]_keyVars =>
        [\A e \in Range(store) :
           e.uid # NoUid /\ e \notin Range(store') => e.key \in dropped']_keyVars
  <2> SUFFICES ASSUME KInv, [KeyStoreNext]_keyVars, NEW e \in Range(store),
                      e.uid # NoUid, e.key \notin dropped'
               PROVE  e \in Range(store')
    OBVIOUS
  <2>1. Kept /\ store \in Seq(Entries) /\ store' \in Seq(Entries)
    BY StepKeepsKInv DEF KInv, Good
  <2>2. PICK f \in Range(store') : f.name = e.name /\ f.key = e.key /\ f.uid = e.uid
    BY <2>1 DEF Kept
  <2>3. e \in Entries /\ f \in Entries
    BY <2>1, EntriesOfSeq
  <2>4. e = f
    BY <2>2, <2>3 DEF Entries
  <2> QED BY <2>4
<1> QED BY <1>1, KInvariant, PTL DEF KeyStoreSpec, EntriesKept
=============================================================================
