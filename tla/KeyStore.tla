------------------------------ MODULE KeyStore ------------------------------
(***************************************************************************)
(* keys.json: the store of Shadowsocks and VLESS keys (providers/keys.py). *)
(* Menu processes import a key or connect to a row of their list; the      *)
(* keeper they spawn looks its server up again, by uid.  Each loads the    *)
(* whole list and saves the whole list; nothing locks.                     *)
(***************************************************************************)
EXTENDS Integers, Sequences, FiniteSets, Functions

CONSTANTS
  Keys,       \* keys a link can hold: all of what _key_fields compares
  KindOf,     \* "ss" or "vless", a part of it
  Titles,     \* names a link can carry, none a part of another
  Importers,  \* menu processes
  MaxUid,     \* bound: uids drawn
  FirstStore, \* what the file holds at first
  NoUid       \* an entry imported before uids existed

\* A name is a title and the numbers appended to it: "a (2)" is <<"a", 2>>.
Suffixed(name, n) == Append(name, n)
Names == {<<t>> : t \in Titles} \cup {<<t, 2>> : t \in Titles}

Entries == [name : Seq(Titles \cup Nat), key : Keys, uid : 1..MaxUid \cup {NoUid}]
Words   == {"none", "refused", "imported", "unknown", "not in store"}

Unambiguous(s) ==
  \A i, j \in DOMAIN s : i # j =>
    /\ s[i].name # s[j].name
    /\ s[i].key # s[j].key
    /\ s[i].uid = NoUid \/ s[i].uid # s[j].uid

FirstUids == Cardinality({i \in DOMAIN FirstStore : FirstStore[i].uid # NoUid})

\* The first store is one the program has written, uids drawn from 1 on.
ASSUME KeyStoreAssumption ==
  /\ KindOf \in [Keys -> {"ss", "vless"}]
  /\ Keys \cap Words = {}
  /\ MaxUid \in Nat /\ NoUid \notin Nat
  /\ FirstStore \in Seq(Entries) /\ Unambiguous(FirstStore) /\ FirstUids \in 0..MaxUid
  /\ \A i \in DOMAIN FirstStore : FirstStore[i].uid \in 1..FirstUids \cup {NoUid}

VARIABLES
  store,   \* keys.json: [name, key, uid], in order
  uids,    \* uids drawn so far; each draw is new (_new_uid: 32 random bits)
  ipc,     \* where each menu process is
  shown,   \* the entry it wants to import or the row it clicked
  list,    \* the list it has loaded
  aimed,   \* the uid in the argv of the keeper it spawned
  result,  \* what came of it: the key connected to, or a word
  dropped  \* history: keys whose entry an older list was saved over

menuKeys == <<ipc, shown, list, aimed, result>>
keyVars  == <<store, uids, menuKeys, dropped>>

Put(f, p, v) == [f EXCEPT ![p] = v]
KeysOf(s)  == {s[i].key : i \in DOMAIN s}
NamesOf(s) == {s[i].name : i \in DOMAIN s}

\* _save_servers of a list that was loaded as base.
SaveServers(new, base) ==
  /\ store' = new
  /\ dropped' = dropped \cup {e.key : e \in Range(store) \ Range(base)}

-----------------------------------------------------------------------------
(* import_config and add_server.                                           *)

StartImport(p, key, name) ==
  /\ ipc[p] = "idle"
  /\ ipc' = Put(ipc, p, "import")
  /\ shown' = Put(shown, p, [name |-> name, key |-> key])
  /\ UNCHANGED <<store, uids, list, aimed, result, dropped>>

Loads(p, from, to) ==
  /\ ipc[p] = from
  /\ ipc' = Put(ipc, p, to)
  /\ list' = Put(list, p, store)
  /\ UNCHANGED <<store, uids, shown, aimed, result, dropped>>

Ends(p, what) ==
  /\ ipc' = Put(ipc, p, "done")
  /\ result' = Put(result, p, what)
  /\ list' = Put(list, p, <<>>)
  /\ UNCHANGED <<shown, aimed>>

AlreadyImported(p) ==
  /\ ipc[p] = "add"
  /\ shown[p].key \in KeysOf(list[p])
  /\ Ends(p, "refused")
  /\ UNCHANGED <<store, uids, dropped>>

\* Mutant: the suffixed name is not looked for.
FreeNameOnce(name, servers) ==
  IF name \notin NamesOf(servers) THEN name ELSE Suffixed(name, 2)

\* The first of "name", "name (2)", "name (3)", ... that no entry has.
FreeName(name, servers) ==
  IF name \notin NamesOf(servers) THEN name
  ELSE LET n == CHOOSE k \in 2..(Len(servers) + 2) :
                  /\ Suffixed(name, k) \notin NamesOf(servers)
                  /\ \A j \in 2..(k - 1) : Suffixed(name, j) \in NamesOf(servers)
       IN Suffixed(name, n)

AddServer(p) ==
  /\ ipc[p] = "add" /\ uids < MaxUid
  /\ shown[p].key \notin KeysOf(list[p])
  /\ uids' = uids + 1
  /\ SaveServers(Append(list[p], [name |-> FreeName(shown[p].name, list[p]),
                                  key |-> shown[p].key, uid |-> uids']), list[p])
  /\ Ends(p, "imported")

-----------------------------------------------------------------------------
(* KeysProvider.connect, on a row of a list read earlier.                  *)

StartConnect(p, i) ==
  /\ ipc[p] = "idle" /\ i \in DOMAIN store
  /\ ipc' = Put(ipc, p, "connect")
  /\ shown' = Put(shown, p, [name |-> store[i].name, key |-> store[i].key])
  /\ UNCHANGED <<store, uids, list, aimed, result, dropped>>

\* Mutant: everybody gets a new uid.
MissingAny(servers) == DOMAIN servers

Missing(servers) == {i \in DOMAIN servers : servers[i].uid = NoUid}

NewUid(i, servers) == uids + Cardinality({j \in Missing(servers) : j <= i})

Filled(servers) ==
  [i \in DOMAIN servers |->
     IF i \in Missing(servers) THEN [servers[i] EXCEPT !.uid = NewUid(i, servers)]
     ELSE servers[i]]

\* Entries without a uid get one, in order; saved only if there are any.
EnsureUids(p) ==
  LET drawn == Cardinality(Missing(list[p]))
  IN /\ ipc[p] = "ensure"
     /\ uids + drawn <= MaxUid
     /\ uids' = uids + drawn
     /\ IF Missing(list[p]) = {} THEN UNCHANGED <<store, dropped>>
        ELSE SaveServers(Filled(list[p]), list[p])
     /\ ipc' = Put(ipc, p, "find")
     /\ list' = Put(list, p, <<>>)
     /\ UNCHANGED <<shown, aimed, result>>

\* name.lower() in s["name"].lower()
Within(name, other) ==
  /\ Len(name) <= Len(other)
  /\ \A i \in DOMAIN name : name[i] = other[i]

\* Mutant: only parts of names are compared.
FoundByPart(name) ==
  LET sub == {i \in DOMAIN store : Within(name, store[i].name)}
  IN IF Cardinality(sub) = 1 THEN sub ELSE {}

\* The first entry of that name, or else the only one whose name contains it.
FoundBy(name) ==
  LET exact == {i \in DOMAIN store : store[i].name = name}
      sub   == {i \in DOMAIN store : Within(name, store[i].name)}
  IN IF exact # {} THEN {CHOOSE i \in exact : \A j \in exact : i <= j}
     ELSE IF Cardinality(sub) = 1 THEN sub ELSE {}

\* _find_server loads the store again.  An entry without a uid there (somebody
\* saved an older list) raises KeyError.
Find(p) ==
  LET kind == KindOf[shown[p].key]
      good == {i \in FoundBy(shown[p].name) :
                 KindOf[store[i].key] = kind /\ store[i].uid # NoUid}
  IN /\ ipc[p] = "find"
     /\ \/ /\ good = {}
           /\ Ends(p, "unknown")
        \/ \E i \in good :
             /\ ipc' = Put(ipc, p, "spawned")
             /\ aimed' = Put(aimed, p, store[i].uid)
             /\ UNCHANGED <<shown, list, result>>
     /\ UNCHANGED <<store, uids, dropped>>

\* run_keeper: the entry with that uid, in the store as it is now.
KeeperLooksUp(p) ==
  LET found == {i \in DOMAIN store : store[i].uid = aimed[p]}
  IN /\ ipc[p] = "spawned"
     /\ Ends(p, IF found = {} THEN "not in store"
                ELSE store[CHOOSE i \in found : \A j \in found : i <= j].key)
     /\ UNCHANGED <<store, uids, dropped>>

Leaves(p) ==
  /\ ipc[p] = "done"
  /\ ipc' = Put(ipc, p, "idle")
  /\ result' = Put(result, p, "none")
  /\ aimed' = Put(aimed, p, NoUid)
  /\ shown' = Put(shown, p, [name |-> <<>>, key |-> NoUid])
  /\ UNCHANGED <<store, uids, list, dropped>>

KeyStoreInit ==
  /\ store = FirstStore
  /\ uids = FirstUids
  /\ ipc = [p \in Importers |-> "idle"]
  /\ shown = [p \in Importers |-> [name |-> <<>>, key |-> NoUid]]
  /\ list = [p \in Importers |-> <<>>]
  /\ aimed = [p \in Importers |-> NoUid]
  /\ result = [p \in Importers |-> "none"]
  /\ dropped = {}

KeyStoreStep(p) ==
  \/ \E key \in Keys, name \in Names : StartImport(p, key, name)
  \/ Loads(p, "import", "add") \/ AlreadyImported(p) \/ AddServer(p)
  \/ \E i \in DOMAIN store : StartConnect(p, i)
  \/ Loads(p, "connect", "ensure") \/ EnsureUids(p) \/ Find(p)
  \/ KeeperLooksUp(p) \/ Leaves(p)

KeyStoreNext == \E p \in Importers : KeyStoreStep(p)

KeyStoreSpec == KeyStoreInit /\ [][KeyStoreNext]_keyVars

-----------------------------------------------------------------------------

KeyStoreTypeOK ==
  /\ store \in Seq(Entries) /\ uids \in 0..MaxUid /\ dropped \subseteq Keys
  /\ list \in [Importers -> Seq(Entries)]
  /\ shown \in [Importers -> [name : Seq(Titles \cup Nat), key : Keys \cup {NoUid}]]
  /\ aimed \in [Importers -> Nat \cup {NoUid}] /\ result \in [Importers -> Keys \cup Words]
  /\ ipc \in [Importers -> {"idle", "import", "add", "connect", "ensure", "find",
                             "spawned", "done"}]

\* Whatever overlaps, the file never holds one key twice, two entries of one
\* name (connect and the menu know a server by its name only) or two of one uid
\* (the keeper knows it by that).
StoreUnambiguous == Unambiguous(store)

\* A click on a row connects to the key that row stood for, through the name,
\* the uid, the keeper's argv and three readings of the file, while others
\* import and are given uids; it fails or goes elsewhere only when an older
\* list was saved over that entry.
ConnectsToTheClicked ==
  \A p \in Importers :
    result[p] \in Keys \cup {"unknown", "not in store"} =>
      result[p] = shown[p].key \/ shown[p].key \in dropped

\* "Imported" means stored: an entry leaves the file or loses its uid only
\* when an older list is saved over it.
EntriesKept ==
  [][\A e \in Range(store) :
       e.uid # NoUid /\ e \notin Range(store') => e.key \in dropped']_keyVars
=============================================================================
