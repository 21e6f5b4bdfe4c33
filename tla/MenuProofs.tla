----------------------------- MODULE MenuProofs -----------------------------
(***************************************************************************)
(* Theorems about what a menu shows: the lines of any menu (Labels) and    *)
(* the rows of any WireGuard and AmneziaWG profiles (Profiles).            *)
(***************************************************************************)
EXTENDS Labels, Profiles, SequenceTheorems, ListProofs

-----------------------------------------------------------------------------
(* Lines.                                                                  *)

TextSet  == Seq(Texts \cup Nat)
LabelSet == [text : TextSet, padded : BOOLEAN]

Distinct(s) == \A i, j \in DOMAIN s : s[i] = s[j] => i = j

\* A number is found for a repeated label, and no line above has the result.
LEMMA FreeLabelIsFree ==
  ASSUME NEW unique \in Seq(LabelSet), NEW label \in LabelSet
  PROVE  FreeLabel(label, unique) \in LabelSet /\ FreeLabel(label, unique) \notin Range(unique)
<1> DEFINE S == 2..(Len(unique) + 2)
           names == [k \in S |-> WithNumber(label, k)]
           free == {n \in S : WithNumber(label, n) \notin Range(unique)}
<1>1. label.text \in TextSet /\ Len(unique) \in Nat
  BY DEF LabelSet
<1>2. \A k \in S : k \in Nat /\ k \in Texts \cup Nat
  OBVIOUS
<1>3. ASSUME NEW k \in Nat PROVE WithNumber(label, k) \in LabelSet
                              /\ WithNumber(label, k).text[Len(label.text) + 1] = k
  <2>1. Append(label.text, k) \in TextSet /\ Append(label.text, k)[Len(label.text) + 1] = k
    BY <1>1, AppendProperties DEF TextSet
  <2>2. WithNumber(label, k) \in LabelSet /\ WithNumber(label, k).text = Append(label.text, k)
    BY <2>1 DEF WithNumber, LabelSet
  <2> QED BY <2>1, <2>2
<1>4. \A k \in S : names[k] = WithNumber(label, k)
  OBVIOUS
<1> HIDE DEF names
<1>5. \A x, y \in S : names[x] = names[y] => x = y
  BY <1>2, <1>3, <1>4
<1>6. PICK k \in S : \A i \in DOMAIN unique : unique[i] # names[k]
  BY <1>5, OneIsFree
<1>7. free \in SUBSET Nat /\ k \in free
  BY <1>2, <1>4, <1>6 DEF Range
<1>8. Min(free) \in free
  <2> HIDE DEF free
  <2> QED BY <1>7, MinIsLeast
<1>9. FreeLabel(label, unique) = WithNumber(label, Min(free))
  BY DEF FreeLabel
<1>10. Min(free) \in Nat /\ WithNumber(label, Min(free)) \notin Range(unique)
  BY <1>2, <1>8
<1> QED BY <1>3, <1>9, <1>10

\* What is added for a label, and the recursive function inside UniqueLabels.
NewLabel(label, unique) ==
  IF label \in Range(unique) THEN FreeLabel(label, unique) ELSE label

UniqueUpTo(labels) ==
  LET New(label, unique) == IF label \in Range(unique) THEN FreeLabel(label, unique) ELSE label
      upTo[n \in 0..Len(labels)] ==
        IF n = 0 THEN <<>> ELSE Append(upTo[n - 1], New(labels[n], upTo[n - 1]))
  IN upTo

\* No two lines of a menu are the same.
LEMMA UniqueLabelsAre ==
  ASSUME NEW labels \in Seq(LabelSet)
  PROVE  UniqueLabels(labels) \in Seq(LabelSet) /\ Distinct(UniqueLabels(labels))
<1> DEFINE N == Len(labels)
           A == Seq(LabelSet)
           next(n, r) == Append(r, NewLabel(labels[n], r))
           G == [n \in 1..N |-> [r \in A |-> next(n, r)]]
           unfold(f) == [n \in 0..N |-> IF n = 0 THEN <<>> ELSE next(n, f[n - 1])]
<1>1. N \in Nat /\ <<>> \in A /\ \A n \in 1..N : labels[n] \in LabelSet
  OBVIOUS
<1>2. ASSUME NEW n \in 1..N, NEW r \in A
      PROVE  NewLabel(labels[n], r) \in LabelSet /\ NewLabel(labels[n], r) \notin Range(r)
  BY <1>1, FreeLabelIsFree DEF NewLabel
<1>3. \A n \in 1..N, r \in A : next(n, r) \in A
  BY <1>2
<1>4. ASSUME NEW n \in 1..N, NEW r \in A, Distinct(r) PROVE Distinct(next(n, r))
  <2> DEFINE e == NewLabel(labels[n], r)
             q == Append(r, e)
  <2>1. e \in LabelSet /\ e \notin Range(r)
    BY <1>2
  <2> HIDE DEF e
  <2>2. /\ DOMAIN q = 1..(Len(r) + 1) /\ q[Len(r) + 1] = e
        /\ \A i \in 1..Len(r) : q[i] = r[i]
    BY <2>1
  <2>3. Len(r) \in Nat /\ DOMAIN r = 1..Len(r)
    OBVIOUS
  <2>4. \A i \in 1..Len(r) : r[i] # e
    BY <2>1, <2>3 DEF Range
  <2> HIDE DEF q
  <2>5. ASSUME NEW i \in 1..(Len(r) + 1), NEW j \in 1..(Len(r) + 1), q[i] = q[j] PROVE i = j
    <3>1. \A k \in 1..(Len(r) + 1) : k \in 1..Len(r) \/ k = Len(r) + 1
      BY <2>3
    <3>2. CASE i \in 1..Len(r) /\ j \in 1..Len(r)
      BY <1>4, <2>2, <2>3, <2>5, <3>2 DEF Distinct
    <3>3. CASE ~(i \in 1..Len(r) /\ j \in 1..Len(r))
      BY <2>2, <2>4, <2>5, <3>1, <3>3
    <3> QED BY <3>2, <3>3
  <2>6. Distinct(q)
    BY <2>2, <2>5 DEF Distinct
  <2> QED BY <2>6 DEF q, e
<1> HIDE DEF next, A, N
<1>5. G \in [1..N -> [A -> A]] /\ \A n \in 1..N, r \in A : G[n][r] = next(n, r)
  BY <1>3
<1> HIDE DEF G
<1>6. PICK f : Recursion(f, N, A, <<>>, G)
  BY <1>1, <1>5, RecursionExists
<1>7. f \in [0..N -> A] /\ f[0] = <<>> /\ \A n \in 1..N : f[n] = G[n][f[n - 1]]
  BY <1>6 DEF Recursion
<1>8. \A n \in 0..N : f[n] = IF n = 0 THEN <<>> ELSE next(n, f[n - 1])
  <2> TAKE n \in 0..N
  <2>1. n = 0 \/ (n # 0 /\ n \in 1..N /\ n - 1 \in 0..N)
    BY <1>1
  <2> QED BY <1>5, <1>7, <2>1
<1>9. f = unfold(f)
  BY <1>7, <1>8
<1> DEFINE h == UniqueUpTo(labels)
<1>10. h = unfold(h)
  <2>1. h = CHOOSE g : g = unfold(g)
    BY DEF UniqueUpTo, N, next, NewLabel
  <2> HIDE DEF unfold, h
  <2> QED BY <1>9, <2>1
<1>11. UniqueLabels(labels) = h[N]
  BY DEF UniqueLabels, UniqueUpTo, N
<1> HIDE DEF h
<1>12. \A n \in 0..N : h[n] = IF n = 0 THEN <<>> ELSE next(n, h[n - 1])
  BY <1>10
<1> DEFINE Bad == {n \in 0..N : ~(h[n] \in A /\ Distinct(h[n]))}
<1>13. Bad = {}
  <2> SUFFICES ASSUME Bad # {} PROVE FALSE
    OBVIOUS
  <2>1. Bad \in SUBSET Nat
    OBVIOUS
  <2>2. PICK n \in Bad : \A k \in Bad : n <= k
    <3> HIDE DEF Bad
    <3> QED BY <2>1, LeastOne
  <2>3. Distinct(<<>>)
    BY DEF Distinct
  <2>4. n # 0
    BY <1>1, <1>12, <2>3
  <2>5. n \in 0..N /\ ~(h[n] \in A /\ Distinct(h[n]))
    BY <2>2
  <2>6. n \in 1..N /\ n - 1 \in 0..N /\ n - 1 \notin Bad
    <3>1. n \in 1..N /\ n - 1 \in 0..N /\ ~(n <= n - 1)
      BY <1>1, <2>4
    <3> HIDE DEF Bad
    <3> QED BY <2>2, <3>1
  <2>7. h[n - 1] \in A /\ Distinct(h[n - 1])
    BY <2>6
  <2> HIDE DEF Bad
  <2>8. h[n] = next(n, h[n - 1])
    BY <1>12, <2>4, <2>5
  <2> QED BY <1>3, <1>4, <2>5, <2>6, <2>7, <2>8
<1>14. h[N] \in A /\ Distinct(h[N])
  BY <1>1, <1>13
<1> QED BY <1>11, <1>14 DEF A

-----------------------------------------------------------------------------

\* The lines that are shown differ, and what runs is what the chosen line means.
LabelsInv ==
  /\ items \in Seq(LabelSet)
  /\ offered \in Seq(LabelSet) /\ Distinct(offered)
  /\ chosen # 0 => chosen \in DOMAIN offered /\ ran = ActionOf(offered[chosen].text)

LEMMA LabelsInitEstablishesInv == LabelsInit => LabelsInv
<1> SUFFICES ASSUME LabelsInit PROVE LabelsInv
  OBVIOUS
<1>1. Genuine \subseteq LabelSet
  <2>1. \A t \in Texts : <<t>> \in TextSet /\ <<t, 2>> \in TextSet
    BY DEF TextSet
  <2> QED BY <2>1 DEF Genuine, LabelSet
<1>2. PICK n \in 1..MaxItems : items \in [1..n -> Genuine]
  BY DEF LabelsInit
<1>3. n \in Nat /\ items \in Seq(Genuine)
  BY <1>2, LabelsAssumption
<1>4. items \in Seq(LabelSet)
  BY <1>1, <1>3
<1>5. offered = <<>> /\ chosen = 0 /\ offered \in Seq(LabelSet)
  BY DEF LabelsInit
<1> QED BY <1>4, <1>5 DEF LabelsInv, Distinct

LEMMA LabelsStepKeepsInv == LabelsInv /\ [LabelsNext]_labelVars => LabelsInv'
<1> SUFFICES ASSUME LabelsInv, [LabelsNext]_labelVars PROVE LabelsInv'
  OBVIOUS
<1>1. CASE ShowMenu
  <2>1. offered' = UniqueLabels(items) /\ UNCHANGED <<items, chosen, ran>> /\ offered = <<>>
    BY <1>1 DEF ShowMenu
  <2>2. offered' \in Seq(LabelSet) /\ Distinct(offered')
    BY <2>1, UniqueLabelsAre DEF LabelsInv
  <2>3. chosen = 0
    BY <2>1 DEF LabelsInv
  <2> QED BY <2>1, <2>2, <2>3 DEF LabelsInv, Distinct
<1>2. CASE Closes
  <2>1. offered' \in Seq(LabelSet) /\ offered' = <<>>
    BY <1>2 DEF Closes
  <2> QED BY <1>2, <2>1 DEF Closes, LabelsInv, Distinct
<1>3. ASSUME NEW i \in DOMAIN offered, ChooseLine(i) PROVE LabelsInv'
  BY <1>3 DEF ChooseLine, LabelsInv, Distinct, ActionOf
<1>4. CASE UNCHANGED labelVars
  BY <1>4 DEF labelVars, LabelsInv, Distinct, ActionOf
<1> QED BY <1>1, <1>2, <1>3, <1>4 DEF LabelsNext

THEOREM LabelsInvariant == LabelsSpec => []LabelsInv
BY LabelsInitEstablishesInv, LabelsStepKeepsInv, PTL DEF LabelsSpec

\* Each row of a menu can be reached, for menus of any length, whatever labels
\* repeat and whatever genuine label looks like a numbered one
\* (vpn_manager.py _unique_labels, run_items).
THEOREM RowsAreReachable == LabelsSpec => []EveryRowReachable
<1>1. LabelsInv => EveryRowReachable
  <2> SUFFICES ASSUME LabelsInv, chosen # 0, ~PaddingTwins PROVE ran = chosen
    BY DEF EveryRowReachable
  <2> DEFINE S == {i \in DOMAIN offered : offered[i].text = offered[chosen].text}
  <2>1. chosen \in DOMAIN offered /\ ran = Min(S) /\ offered \in Seq(LabelSet) /\ Distinct(offered)
    BY DEF LabelsInv, ActionOf
  <2>2. S \in SUBSET Nat /\ chosen \in S
    BY <2>1
  <2>3. ASSUME NEW i \in S PROVE i = chosen
    <3>1. offered[i].padded = offered[chosen].padded
      BY <2>1 DEF PaddingTwins
    <3>2. offered[i] \in LabelSet /\ offered[chosen] \in LabelSet
      BY <2>1
    <3>3. offered[i] = offered[chosen]
      BY <3>1, <3>2 DEF LabelSet
    <3> QED BY <2>1, <3>3 DEF Distinct
  <2> HIDE DEF S
  <2> QED BY <2>1, <2>2, <2>3, MinIsLeast
<1> QED BY <1>1, LabelsInvariant, PTL

-----------------------------------------------------------------------------
(* WireGuard and AmneziaWG profiles.                                       *)

\* The profiles are files, and an interface is of a kind its tool makes.
ProfilesInv ==
  /\ conf \in [Dirs -> SUBSET Profile]
  /\ \A n \in Profile : iface[n] # NoIface =>
       iface[n].tool \in Dirs /\ iface[n].type \in LinkTypes[iface[n].tool]
  /\ DOMAIN iface = Profile

LEMMA ProfilesInitEstablishesInv == ProfilesInit => ProfilesInv
BY DEF ProfilesInit, ProfilesInv

LEMMA DownKeepsInv ==
  ASSUME ProfilesInv, NEW dir, NEW n, Down(dir, n), UNCHANGED conf
  PROVE  ProfilesInv'
<1>1. iface' = iface \/ iface' = [iface EXCEPT ![n] = NoIface]
  BY DEF Down
<1> QED BY <1>1 DEF ProfilesInv

LEMMA ProfilesStepKeepsInv ==
  ProfilesInv /\ [ProfilesNext]_profileVars => ProfilesInv'
<1> SUFFICES ASSUME ProfilesInv, [ProfilesNext]_profileVars PROVE ProfilesInv'
  OBVIOUS
<1>1. ASSUME NEW dir \in Dirs, NEW n \in Profile, QuickUp(dir, n) PROVE ProfilesInv'
  <2>1. PICK type \in LinkTypes[dir] : iface' = [iface EXCEPT ![n] = [tool |-> dir, type |-> type]]
    BY <1>1 DEF QuickUp
  <2>2. conf' = conf
    BY <1>1 DEF QuickUp
  <2>3. \A k \in Profile : iface'[k] = IF k = n THEN [tool |-> dir, type |-> type] ELSE iface[k]
    BY <2>1 DEF ProfilesInv
  <2> QED BY <2>1, <2>2, <2>3 DEF ProfilesInv
<1>2. ASSUME NEW dir \in Dirs, NEW n \in Profile, QuickDown(dir, n) PROVE ProfilesInv'
  BY <1>2, DownKeepsInv DEF QuickDown
<1>3. ASSUME NEW dir \in Dirs, NEW n \in Profile, ImportProfile(dir, n) PROVE ProfilesInv'
  BY <1>3 DEF ImportProfile, ProfilesInv
<1>4. ASSUME NEW m \in Managers PROVE
        /\ \A dir \in Dirs : ListProfiles(m, dir) => ProfilesInv'
        /\ \A i : ChooseProfile(m, i) => ProfilesInv'
        /\ ToggleAutostart(m) \/ LeaveMenu(m) => ProfilesInv'
  BY DEF ListProfiles, ChooseProfile, ToggleAutostart, LeaveMenu, ProfilesInv
<1>5. ASSUME NEW m \in Managers, DeleteConfig(m) PROVE ProfilesInv'
  BY <1>5 DEF DeleteConfig, ProfilesInv
<1>6. ASSUME NEW m \in Managers, DisconnectProfile(m) PROVE ProfilesInv'
  BY <1>6, DownKeepsInv DEF DisconnectProfile
<1>7. CASE UNCHANGED profileVars
  BY <1>7 DEF profileVars, ProfilesInv
<1> QED BY <1>1, <1>2, <1>3, <1>4, <1>5, <1>6, <1>7 DEF ProfilesNext

THEOREM ProfilesInvariant == ProfilesSpec => []ProfilesInv
BY ProfilesInitEstablishesInv, ProfilesStepKeepsInv, PTL DEF ProfilesSpec

\* The rows of a provider: its profiles and its orphans, each once.
LEMMA RowsOfAProvider ==
  ASSUME ProfilesInv, NEW dir \in Dirs, NEW n \in Profile
  PROVE  /\ n \in (conf[dir] \cup Orphans(dir)) \cap Active(dir) => Cardinality(ActiveIn(dir, n)) = 1
         /\ n \notin (conf[dir] \cup Orphans(dir)) \cap Active(dir) => ActiveIn(dir, n) = {}
<1> DEFINE s == Only(ProfileNames, conf[dir])
           t == Only(ProfileNames, Orphans(dir))
           all == s \o t
           row(x) == [name |-> x, active |-> x \in Active(dir)]
<1>1. /\ ProfileNames \in Seq(Profile)
      /\ \A i, j \in DOMAIN ProfileNames : ProfileNames[i] = ProfileNames[j] => i = j
      /\ \A x \in Profile : \E i \in DOMAIN ProfileNames : ProfileNames[i] = x
  BY ProfilesAssumption DEF Profile, Range
<1>2. conf[dir] \cap Orphans(dir) = {}
  BY DEF Orphans
<1>3. /\ s \in Seq(Profile)
      /\ \A x : (\E i \in DOMAIN s : s[i] = x) <=> x \in conf[dir] /\ \E i \in DOMAIN ProfileNames : ProfileNames[i] = x
      /\ \A i, j \in DOMAIN s : s[i] = s[j] => i = j
  BY <1>1, OnlyProperties
<1>4. /\ t \in Seq(Profile)
      /\ \A x : (\E i \in DOMAIN t : t[i] = x) <=> x \in Orphans(dir) /\ \E i \in DOMAIN ProfileNames : ProfileNames[i] = x
      /\ \A i, j \in DOMAIN t : t[i] = t[j] => i = j
  BY <1>1, OnlyProperties
<1> HIDE DEF s, t
<1>5. /\ all \in Seq(Profile) /\ DOMAIN s = 1..Len(s) /\ DOMAIN t = 1..Len(t)
      /\ DOMAIN all = 1..(Len(s) + Len(t)) /\ Len(s) \in Nat /\ Len(t) \in Nat
      /\ \A i \in 1..Len(s) : all[i] = s[i]
      /\ \A i \in 1..Len(t) : all[Len(s) + i] = t[i]
  BY <1>3, <1>4
<1> HIDE DEF all
<1>6. ASSUME NEW i \in DOMAIN all
      PROVE  \/ i \in DOMAIN s /\ all[i] = s[i] /\ all[i] \in conf[dir]
             \/ i - Len(s) \in DOMAIN t /\ all[i] = t[i - Len(s)] /\ all[i] \in Orphans(dir)
  <2>1. CASE i \in 1..Len(s)
    BY <1>3, <1>5, <2>1
  <2>2. CASE ~(i \in 1..Len(s))
    <3>1. i - Len(s) \in 1..Len(t) /\ i = Len(s) + (i - Len(s))
      BY <1>5, <2>2
    <3> QED BY <1>4, <1>5, <3>1
  <2> QED BY <2>1, <2>2
<1>7. ASSUME NEW i \in DOMAIN all, NEW j \in DOMAIN all, all[i] = all[j] PROVE i = j
  <2>1. CASE all[i] \in conf[dir]
    BY <1>2, <1>3, <1>6, <1>7, <2>1
  <2>2. CASE all[i] \notin conf[dir]
    <3>1. i - Len(s) = j - Len(s)
      BY <1>4, <1>6, <1>7, <2>2
    <3> QED BY <1>5, <3>1
  <2> QED BY <2>1, <2>2
<1>8. ASSUME n \in conf[dir] \cup Orphans(dir) PROVE \E i \in DOMAIN all : all[i] = n
  <2>1. CASE n \in conf[dir]
    <3>1. PICK i \in DOMAIN s : s[i] = n
      BY <1>1, <1>3, <2>1
    <3>2. i \in DOMAIN all
      BY <1>5, <3>1
    <3> QED BY <1>5, <3>1, <3>2
  <2>2. CASE n \in Orphans(dir)
    <3>1. PICK i \in DOMAIN t : t[i] = n
      BY <1>1, <1>4, <2>2
    <3>2. Len(s) + i \in DOMAIN all
      BY <1>5, <3>1
    <3> QED BY <1>5, <3>1, <3>2
  <2> QED BY <1>8, <2>1, <2>2
<1>9. DOMAIN Connections(dir) = DOMAIN all /\ \A i \in DOMAIN all : Connections(dir)[i] = row(all[i])
  BY DEF Connections, all, s, t
<1>10. \A x : row(x) = [name |-> n, active |-> TRUE] <=> x = n /\ n \in Active(dir)
  <2> TAKE x
  <2>2. ASSUME row(x) = [name |-> n, active |-> TRUE] PROVE x = n /\ n \in Active(dir)
    <3>1. row(x).name = x /\ (row(x).active <=> x \in Active(dir))
      OBVIOUS
    <3> HIDE DEF row
    <3>2. row(x).name = n /\ row(x).active
      BY <2>2
    <3> QED BY <3>1, <3>2
  <2>3. x = n /\ n \in Active(dir) => row(x) = [name |-> n, active |-> TRUE]
    BY DEF row
  <2> QED BY <2>2, <2>3
<1> HIDE DEF row
<1>11. ActiveIn(dir, n) = {i \in DOMAIN all : all[i] = n /\ n \in Active(dir)}
  BY <1>9, <1>10 DEF ActiveIn
<1>12. ASSUME n \in (conf[dir] \cup Orphans(dir)) \cap Active(dir) PROVE Cardinality(ActiveIn(dir, n)) = 1
  <2>1. PICK i \in DOMAIN all : all[i] = n
    BY <1>8, <1>12
  <2>2. ActiveIn(dir, n) = {i}
    BY <1>7, <1>11, <1>12, <2>1
  <2> QED BY <2>2, FS_Singleton
<1>13. ASSUME n \notin (conf[dir] \cup Orphans(dir)) \cap Active(dir) PROVE ActiveIn(dir, n) = {}
  BY <1>6, <1>11, <1>13
<1> QED BY <1>12, <1>13

\* A tunnel of any number of profiles is one active row of its own provider and
\* none of the other's, whatever type the kernel gives its interface
\* (providers/wireguard.py connections, _extra_active).
THEOREM TunnelsAreListedOnce == ProfilesSpec => []ActiveListedOnce
<1>1. ProfilesInv => ActiveListedOnce
  <2> SUFFICES ASSUME ProfilesInv, NEW n \in Profile, iface[n] # NoIface
               PROVE  LET own == iface[n].tool
                          twins == conf["wg"] \cap conf["awg"]
                      IN /\ n \in conf[own] \ twins =>
                              Cardinality(ActiveIn(own, n)) = 1 /\ ActiveIn(Other(own), n) = {}
                         /\ n \notin conf["wg"] \cup conf["awg"] =>
                              Cardinality(ActiveIn("wg", n)) + Cardinality(ActiveIn("awg", n)) <= 1
    BY DEF ActiveListedOnce
  <2>1. /\ iface[n].tool = "wg" \/ iface[n].tool = "awg"
        /\ iface[n].tool = "wg" => iface[n].type = "wireguard"
        /\ "wg" \in Dirs /\ "awg" \in Dirs /\ Other("wg") = "awg" /\ Other("awg") = "wg"
        /\ LinkType["wg"] = "wireguard" /\ LinkType["awg"] = "amneziawg"
    BY DEF ProfilesInv, Dirs, LinkTypes, LinkType, Other
  <2>2. /\ n \in Reported("wg") <=> iface[n].type = "wireguard"
        /\ n \in Reported("awg") <=> iface[n].type = "amneziawg"
    BY <2>1 DEF Reported
  <2>3. /\ n \in Active("wg") <=> n \in Reported("wg")
        /\ n \in Active("awg") <=> n \in Reported("awg") \/ n \in conf["awg"]
    BY DEF Active
  <2>4. \A dir \in Dirs : n \in conf["wg"] \cup conf["awg"] => n \notin Orphans(dir)
    BY <2>1 DEF Orphans, Dirs
  <2>5. CASE iface[n].tool = "wg" /\ n \in conf["wg"] /\ n \notin conf["awg"]
    <3>1. Cardinality(ActiveIn("wg", n)) = 1
      BY <2>1, <2>2, <2>3, <2>5, RowsOfAProvider
    <3>2. ActiveIn("awg", n) = {}
      BY <2>1, <2>4, <2>5, RowsOfAProvider
    <3> QED BY <2>1, <2>5, <3>1, <3>2
  <2>6. CASE iface[n].tool = "awg" /\ n \in conf["awg"] /\ n \notin conf["wg"]
    <3>1. Cardinality(ActiveIn("awg", n)) = 1
      BY <2>1, <2>3, <2>6, RowsOfAProvider
    <3>2. ActiveIn("wg", n) = {}
      BY <2>1, <2>4, <2>6, RowsOfAProvider
    <3> QED BY <2>1, <2>6, <3>1, <3>2
  <2>7. CASE n \notin conf["wg"] \cup conf["awg"]
    <3>1. n \notin Active("wg") \/ n \notin Active("awg")
      BY <2>2, <2>3, <2>7
    <3>2. \A dir \in Dirs : /\ ActiveIn(dir, n) = {} \/ Cardinality(ActiveIn(dir, n)) = 1
                            /\ n \notin Active(dir) => ActiveIn(dir, n) = {}
      BY RowsOfAProvider
    <3>3. \A dir \in Dirs : /\ Cardinality(ActiveIn(dir, n)) \in {0, 1}
                            /\ n \notin Active(dir) => Cardinality(ActiveIn(dir, n)) = 0
      BY <3>2, FS_EmptySet
    <3>4. Cardinality(ActiveIn("wg", n)) + Cardinality(ActiveIn("awg", n)) <= 1
      BY <2>1, <3>1, <3>3
    <3> QED BY <2>1, <2>7, <3>4
  <2> QED BY <2>1, <2>5, <2>6, <2>7
<1> QED BY <1>1, ProfilesInvariant, PTL
=============================================================================
