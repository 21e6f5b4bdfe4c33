--------------------------- MODULE SettingsProofs ---------------------------
(***************************************************************************)
(* Theorems about Settings, for any rows, any terminal heights and any     *)
(* number of processes that write config.json while the window is open.    *)
(***************************************************************************)
EXTENDS Settings, ListProofs

AnyValue == UNION {Values(s) : s \in Settings}

\* A configuration, with the URLs it remembers each once.
Configs == {c \in [Settings -> AnyValue] : IsConfig(c) /\ EachOnce(c["urls"])}

RowRange == Range(General) \cup Visible \cup Range(SourceRows)

-----------------------------------------------------------------------------
(* The rows.                                                               *)

\* The rows are those of the four sections and the headers.
LEMMA RowsAre ==
  /\ Rows \in Seq(Range(Rows)) /\ DOMAIN Rows = 1..Len(Rows) /\ Len(Rows) \in Nat
  /\ Range(Rows) = RowRange \cup {Header}
<1> DEFINE S == RowRange \cup {Header}
           H == <<Header>>
           a == H \o General
           b == a \o H
           c == b \o ProviderRows
           d == c \o H
           e == d \o ToolRows
           f == e \o H
           g == f \o SourceRows
<1>1. H \in Seq(S) /\ Range(H) = {Header}
  BY DEF Range
<1>2. /\ General \in Seq(S) /\ ProviderRows \in Seq(S)
      /\ ToolRows \in Seq(S) /\ SourceRows \in Seq(S)
  <2>1. ASSUME NEW list \in {General, ProviderRows, ToolRows, SourceRows}
        PROVE  list \in Seq(S)
    <3>1. list \in Seq(Range(list)) /\ Range(list) \subseteq S
      BY <2>1, SettingsAssumption DEF RowRange, Visible
    <3> QED BY <3>1
  <2> QED BY <2>1
<1>3. Rows = g
  BY DEF Rows
<1> HIDE DEF S, H, a, b, c, d, e, f, g
<1>4. a \in Seq(S) /\ Range(a) = Range(H) \cup Range(General)
  BY <1>1, <1>2, RangeOfConcat DEF a
<1>5. b \in Seq(S) /\ Range(b) = Range(a) \cup Range(H)
  BY <1>1, <1>4, RangeOfConcat DEF b
<1>6. c \in Seq(S) /\ Range(c) = Range(b) \cup Range(ProviderRows)
  BY <1>2, <1>5, RangeOfConcat DEF c
<1>7. d \in Seq(S) /\ Range(d) = Range(c) \cup Range(H)
  BY <1>1, <1>6, RangeOfConcat DEF d
<1>8. e \in Seq(S) /\ Range(e) = Range(d) \cup Range(ToolRows)
  BY <1>2, <1>7, RangeOfConcat DEF e
<1>9. f \in Seq(S) /\ Range(f) = Range(e) \cup Range(H)
  BY <1>1, <1>8, RangeOfConcat DEF f
<1>10. g \in Seq(S) /\ Range(g) = Range(f) \cup Range(SourceRows)
  BY <1>2, <1>9, RangeOfConcat DEF g
<1>11. Range(Rows) = S
  BY <1>1, <1>3, <1>4, <1>5, <1>6, <1>7, <1>8, <1>9, <1>10 DEF S, RowRange, Visible
<1>12. Rows \in Seq(S)
  BY <1>3, <1>10
<1>13. DOMAIN Rows = 1..Len(Rows) /\ Len(Rows) \in Nat
  BY <1>12
<1> QED BY <1>11, <1>12, <1>13 DEF S

LEMMA SettingsAre == Settings = RowRange \cup {"killswitch_mode", "urls"}
BY RowsAre, SettingsAssumption DEF Settings, RowRange

-----------------------------------------------------------------------------
(* The cursor.                                                             *)

OnASetting(i) == i \in DOMAIN Rows /\ Selectable(i)

\* Up or down, the next row is a setting.
LEMMA NextRowIsASetting ==
  ASSUME NEW i \in DOMAIN Rows, Selectable(i), NEW step \in {1, -1}
  PROVE  OnASetting(NextRow(i, step))
<1> DEFINE ahead == {j \in DOMAIN Rows : Selectable(j) /\ (j - i) * step > 0}
<1>1. ahead \in SUBSET Nat /\ \A j \in ahead : j <= Len(Rows) /\ OnASetting(j)
  BY RowsAre DEF OnASetting
<1>2. i \in Nat /\ Len(Rows) \in Nat
  BY RowsAre
<1>3. NextRow(i, step) = IF ahead = {} THEN i
                         ELSE CHOOSE j \in ahead : \A k \in ahead : (k - j) * step >= 0
  BY DEF NextRow
<1> HIDE DEF ahead
<1>4. CASE ahead = {}
  BY <1>3, <1>4 DEF OnASetting
<1>5. CASE ahead # {}
  <2>1. \E j \in ahead : \A k \in ahead : (k - j) * step >= 0
    <3>1. CASE step = 1
      <4>1. PICK j \in ahead : \A k \in ahead : j <= k
        BY <1>1, <1>5, LeastOne
      <4>2. ASSUME NEW k \in ahead PROVE (k - j) * 1 >= 0
        <5>1. j \in Nat /\ k \in Nat /\ j <= k
          BY <1>1, <4>1
        <5> QED BY <5>1
      <4> QED BY <3>1, <4>2
    <3>2. CASE step = -1
      <4>1. PICK j \in ahead : \A k \in ahead : k <= j
        BY <1>1, <1>2, <1>5, GreatestOne
      <4>2. ASSUME NEW k \in ahead PROVE (k - j) * (-1) >= 0
        <5>1. j \in Nat /\ k \in Nat /\ k <= j
          BY <1>1, <4>1
        <5> QED BY <5>1
      <4> QED BY <3>2, <4>2
    <3> QED BY <3>1, <3>2
  <2>2. (CHOOSE j \in ahead : \A k \in ahead : (k - j) * step >= 0) \in ahead
    BY <2>1
  <2> QED BY <1>1, <1>3, <1>5, <2>2
<1> QED BY <1>4, <1>5

\* The recursive function inside MoveBy.
Hops(size, step) ==
  LET Hop[n \in 0..size] == IF n = 0 THEN cursor ELSE NextRow(Hop[n - 1], step)
  IN Hop

\* However far it moves, the cursor stays on a setting.
LEMMA MoveByIsASetting ==
  ASSUME NEW delta \in Int, OnASetting(cursor)
  PROVE  OnASetting(MoveBy(delta))
<1> DEFINE size == IF delta > 0 THEN delta ELSE -delta
           step == IF delta > 0 THEN 1 ELSE -1
           A == {i \in DOMAIN Rows : Selectable(i)}
           G == [n \in 1..size |-> [i \in A |-> NextRow(i, step)]]
           unfold(f) == [n \in 0..size |-> IF n = 0 THEN cursor ELSE NextRow(f[n - 1], step)]
<1>1. size \in Nat /\ step \in {1, -1} /\ cursor \in A
  BY DEF OnASetting
<1>2. MoveBy(delta) = Hops(size, step)[size]
  BY DEF MoveBy, Hops
<1> HIDE DEF size, step
<1>3. \A i \in A : NextRow(i, step) \in A
  BY <1>1, NextRowIsASetting DEF OnASetting
<1>4. \A i \in A : OnASetting(i)
  BY DEF OnASetting
<1> HIDE DEF A
<1>5. G \in [1..size -> [A -> A]] /\ \A n \in 1..size, i \in A : G[n][i] = NextRow(i, step)
  BY <1>3
<1> HIDE DEF G
<1>6. PICK f : Recursion(f, size, A, cursor, G)
  BY <1>1, <1>5, RecursionExists
<1>7. f \in [0..size -> A] /\ f[0] = cursor /\ \A n \in 1..size : f[n] = G[n][f[n - 1]]
  BY <1>6 DEF Recursion
<1>8. \A n \in 0..size : f[n] = IF n = 0 THEN cursor ELSE NextRow(f[n - 1], step)
  <2> TAKE n \in 0..size
  <2>1. n = 0 \/ (n # 0 /\ n \in 1..size /\ n - 1 \in 0..size)
    BY <1>1
  <2> QED BY <1>5, <1>7, <2>1
<1>9. f = unfold(f)
  BY <1>7, <1>8
<1> DEFINE h == Hops(size, step)
<1>10. h = unfold(h)
  <2>1. h = CHOOSE g : g = unfold(g)
    BY DEF Hops
  <2> HIDE DEF unfold, h
  <2> QED BY <1>9, <2>1
<1> HIDE DEF h
<1>11. \A n \in 0..size : h[n] = IF n = 0 THEN cursor ELSE NextRow(h[n - 1], step)
  BY <1>10
<1> DEFINE Bad == {n \in 0..size : h[n] \notin A}
<1>12. Bad = {}
  <2> SUFFICES ASSUME Bad # {} PROVE FALSE
    OBVIOUS
  <2>1. Bad \in SUBSET Nat
    OBVIOUS
  <2>2. PICK n \in Bad : \A k \in Bad : n <= k
    <3> HIDE DEF Bad
    <3> QED BY <2>1, LeastOne
  <2>3. n # 0
    BY <1>1, <1>11
  <2>4. n \in 0..size /\ n - 1 \in 0..size /\ n - 1 \notin Bad
    <3>1. n \in 0..size /\ n - 1 \in 0..size /\ ~(n <= n - 1)
      BY <1>1, <2>3
    <3> HIDE DEF Bad
    <3> QED BY <2>2, <3>1
  <2>5. h[n - 1] \in A
    BY <2>4
  <2> QED BY <1>3, <1>11, <2>3, <2>4, <2>5
<1>13. h[size] \in A
  BY <1>1, <1>12
<1> QED BY <1>2, <1>4, <1>13 DEF h

-----------------------------------------------------------------------------
(* The first row shown.                                                    *)

\* The recursive function inside Lifted.
Lifts(start, h) ==
  LET Lift[t \in 1..start] ==
        IF t > 1 /\ ~Selectable(t - 1) /\ cursor - t + 1 < h THEN Lift[t - 1] ELSE t
  IN Lift

\* With the cursor among the h rows from start, it is among the h rows from
\* Lifted, and no header above them would fit.
LEMMA LiftedKeepsInView ==
  ASSUME NEW start \in Nat \ {0}, NEW h \in Nat, cursor \in Nat,
         start <= cursor, cursor < start + h
  PROVE  /\ Lifted(start, h) \in Nat /\ Lifted(start, h) >= 1 /\ Lifted(start, h) <= cursor
         /\ cursor < Lifted(start, h) + h
         /\ cursor - Lifted(start, h) + 1 < h =>
              Lifted(start, h) = 1 \/ Selectable(Lifted(start, h) - 1)
<1> DEFINE up(t) == t > 1 /\ ~Selectable(t - 1) /\ cursor - t + 1 < h
           G == [n \in 1..start |-> [r \in Nat |-> IF up(n) THEN r ELSE n]]
           unfold(f) == [t \in 1..start |-> IF up(t) THEN f[t - 1] ELSE t]
<1>1. G \in [1..start -> [Nat -> Nat]] /\ \A n \in 1..start, r \in Nat : G[n][r] = IF up(n) THEN r ELSE n
  <2>1. \A n \in 1..start : n \in Nat
    OBVIOUS
  <2> HIDE DEF up
  <2> QED BY <2>1
<1> HIDE DEF G
<1>2. PICK f : Recursion(f, start, Nat, 1, G)
  BY <1>1, RecursionExists
<1>3. f \in [0..start -> Nat] /\ \A n \in 1..start : f[n] = G[n][f[n - 1]]
  BY <1>2 DEF Recursion
<1> DEFINE fs == [t \in 1..start |-> f[t]]
<1>4. \A t \in 1..start : fs[t] = IF up(t) THEN fs[t - 1] ELSE t
  <2> TAKE t \in 1..start
  <2>1. t - 1 \in 0..start /\ f[t - 1] \in Nat
    BY <1>3
  <2>2. fs[t] = IF up(t) THEN f[t - 1] ELSE t
    <3> HIDE DEF up
    <3> QED BY <1>1, <1>3, <2>1
  <2>3. up(t) => t - 1 \in 1..start
    OBVIOUS
  <2>4. up(t) => fs[t - 1] = f[t - 1]
    BY <2>3
  <2> HIDE DEF up, fs
  <2> QED BY <2>2, <2>4
<1>5. fs = unfold(fs)
  <2>1. fs = [t \in 1..start |-> fs[t]]
    OBVIOUS
  <2> HIDE DEF fs, up
  <2> QED BY <1>4, <2>1
<1> DEFINE l == Lifts(start, h)
<1>6. l = unfold(l)
  <2>1. l = CHOOSE g : g = unfold(g)
    BY DEF Lifts
  <2> HIDE DEF unfold, l, fs
  <2> QED BY <1>5, <2>1
<1>7. Lifted(start, h) = l[start]
  BY DEF Lifted, Lifts
<1> HIDE DEF l, fs
<1>8. \A t \in 1..start : l[t] = IF up(t) THEN l[t - 1] ELSE t
  BY <1>6
<1> DEFINE Fine(t, r) == /\ r \in Nat /\ r >= 1 /\ r <= t /\ cursor < r + h
                         /\ cursor - r + 1 < h => r = 1 \/ Selectable(r - 1)
           Bad == {t \in 1..start : cursor < t + h /\ ~Fine(t, l[t])}
<1>9. Bad = {}
  <2> SUFFICES ASSUME Bad # {} PROVE FALSE
    OBVIOUS
  <2>1. Bad \in SUBSET Nat
    OBVIOUS
  <2>2. PICK t \in Bad : \A k \in Bad : t <= k
    <3> HIDE DEF Bad
    <3> QED BY <2>1, LeastOne
  <2>3. t \in 1..start /\ cursor < t + h /\ ~Fine(t, l[t])
    OBVIOUS
  <2>4. CASE ~up(t)
    <3>1. l[t] = t
      <4> HIDE DEF up
      <4> QED BY <1>8, <2>3, <2>4
    <3> QED BY <2>3, <2>4, <3>1
  <2>5. CASE up(t)
    <3>1. l[t] = l[t - 1]
      <4> HIDE DEF up
      <4> QED BY <1>8, <2>3, <2>5
    <3>2. t - 1 \in 1..start /\ cursor < (t - 1) + h /\ ~(t <= t - 1)
      BY <2>3, <2>5
    <3>3. t - 1 \notin Bad
      <4> HIDE DEF Bad
      <4> QED BY <2>2, <3>2
    <3>4. Fine(t - 1, l[t - 1])
      <4> HIDE DEF Fine
      <4> QED BY <3>2, <3>3
    <3> QED BY <2>3, <3>1, <3>4
  <2> QED BY <2>4, <2>5
<1>10. Fine(start, l[start])
  <2>1. start \in 1..start
    OBVIOUS
  <2> HIDE DEF Fine
  <2> QED BY <1>9, <2>1
<1> QED BY <1>7, <1>10

-----------------------------------------------------------------------------
(* Values.                                                                 *)

\* The cases of Values and Default, one at a time.
LEMMA Cases ==
  ASSUME NEW s \in Settings
  PROVE  /\ s = "killswitch_mode" => Values(s) = Range(Modes) /\ Default(s) = "off"
         /\ s = "urls" => /\ Values(s) = UNION {[1..n -> Urls] : n \in 0..MaxUrls}
                          /\ Default(s) = <<>>
         /\ s \in Flags => Values(s) = {"on", "off"} /\ Default(s) \in {"on", "off"}
         /\ s \in Keyed => Values(s) = {"unset", "empty"} \cup ApiKeys /\ Default(s) = "unset"
         /\ s \in Visible \cup Keyless =>
              Values(s) = {"unset", "on", "off"} /\ Default(s) = "unset"
<1>1. s \in RowRange \cup {"killswitch_mode", "urls"}
  BY SettingsAre
<1>2. /\ "killswitch_mode" \notin Flags \cup Keyed
      /\ "urls" \notin Flags \cup Keyed
      /\ Flags \cap Keyed = {}
      /\ {"dns_mode", "exit_ip", "killswitch_mode", "urls"} \cap (Visible \cup Keyed \cup Keyless) = {}
      /\ (Visible \cup Keyless) \cap (Flags \cup Keyed) = {}
  BY SettingsAssumption DEF Flags, Keyless
<1> DEFINE D == {"dns_mode", "exit_ip"}
<1>3. "killswitch_mode" # "urls" /\ "killswitch_mode" \notin D /\ "urls" \notin D
  OBVIOUS
<1>4. Flags \subseteq D \cup (Flags \ D)
  OBVIOUS
<1> HIDE DEF D
<1>5. /\ Values(s) = CASE s = "killswitch_mode" -> Range(Modes)
                      [] s = "urls" -> UNION {[1..n -> Urls] : n \in 0..MaxUrls}
                      [] s \in Flags -> {"on", "off"}
                      [] s \in Keyed -> {"unset", "empty"} \cup ApiKeys
                      [] OTHER -> {"unset", "on", "off"}
      /\ Default(s) = CASE s = "killswitch_mode" -> "off"
                       [] s = "urls" -> <<>>
                       [] s \in D -> "on"
                       [] s \in Flags \ D -> "off"
                       [] OTHER -> "unset"
  BY Zenon DEF Values, Default, D
<1>6. CASE s = "killswitch_mode"
  BY <1>2, <1>3, <1>5, <1>6, Zenon
<1>7. CASE s = "urls"
  BY <1>2, <1>3, <1>5, <1>7, Zenon
<1>8. CASE s \in Flags
  BY <1>2, <1>3, <1>5, <1>8, Zenon
<1>9. CASE s \in Keyed
  BY <1>2, <1>3, <1>5, <1>9, Zenon DEF D
<1>10. CASE s \in Visible \cup Keyless
  BY <1>2, <1>3, <1>5, <1>10, Zenon DEF D
<1>11. RowRange \subseteq Flags \cup Keyed \cup Visible \cup Keyless \cup {"killswitch_mode"}
  BY DEF RowRange, Flags, Keyless
<1> QED BY <1>1, <1>6, <1>7, <1>8, <1>9, <1>10, <1>11

LEMMA UrlLists ==
  ASSUME NEW v
  PROVE  v \in Values("urls") <=> v \in Seq(Urls) /\ Len(v) <= MaxUrls
<1>1. Values("urls") = UNION {[1..n -> Urls] : n \in 0..MaxUrls}
  BY Cases, SettingsAre
<1>2. MaxUrls \in Nat
  BY SettingsAssumption
<1>3. ASSUME v \in Values("urls") PROVE v \in Seq(Urls) /\ Len(v) <= MaxUrls
  <2>1. PICK n \in 0..MaxUrls : v \in [1..n -> Urls]
    BY <1>1, <1>3
  <2>2. n \in Nat /\ n <= MaxUrls
    BY <1>2
  <2>3. v \in Seq(Urls) /\ Len(v) = n
    BY <2>1, <2>2
  <2> QED BY <2>2, <2>3
<1>4. ASSUME v \in Seq(Urls), Len(v) <= MaxUrls PROVE v \in Values("urls")
  <2>1. Len(v) \in 0..MaxUrls /\ v \in [1..Len(v) -> Urls]
    BY <1>2, <1>4
  <2> QED BY <1>1, <2>1
<1> QED BY <1>3, <1>4

\* The list with u first: not too long, and each URL once.
LEMMA RecentUrls ==
  ASSUME NEW u \in Urls, NEW urls \in Values("urls"), EachOnce(urls)
  PROVE  Recent(u, urls) \in Values("urls") /\ EachOnce(Recent(u, urls))
<1> DEFINE rest == Only(urls, Range(urls) \ {u})
           all == <<u>> \o rest
           n == IF Len(all) < MaxUrls THEN Len(all) ELSE MaxUrls
<1>1. MaxUrls \in Nat /\ urls \in Seq(Urls)
  BY SettingsAssumption, UrlLists
<1>2. rest \in Seq(Urls)
  BY <1>1, OnlyProperties
<1>3. \A i \in DOMAIN rest : rest[i] # u
  <2>1. \A x : (\E i \in DOMAIN rest : rest[i] = x) => x \in Range(urls) \ {u}
    BY <1>1, OnlyProperties
  <2> HIDE DEF rest
  <2> QED BY <2>1
<1>4. \A i, j \in DOMAIN rest : rest[i] = rest[j] => i = j
  <2>1. \A i, j \in DOMAIN urls : urls[i] = urls[j] => i = j
    BY DEF EachOnce
  <2> QED BY <1>1, <2>1, OnlyProperties
<1> HIDE DEF rest
<1>5. /\ all \in Seq(Urls) /\ Len(all) = 1 + Len(rest) /\ Len(all) \in Nat
      /\ all[1] = u /\ \A i \in 1..Len(rest) : all[1 + i] = rest[i]
  BY <1>2
<1>6. DOMAIN rest = 1..Len(rest) /\ Len(rest) \in Nat
  BY <1>2
<1> HIDE DEF all
<1>7. ASSUME NEW i \in 1..Len(all), NEW j \in 1..Len(all), all[i] = all[j] PROVE i = j
  <2>1. \A k \in 1..Len(all) : k = 1 \/ (k - 1 \in 1..Len(rest) /\ all[k] = rest[k - 1])
    <3> TAKE k \in 1..Len(all)
    <3>1. k = 1 \/ (k - 1 \in 1..Len(rest) /\ k = 1 + (k - 1))
      BY <1>5, <1>6
    <3> QED BY <1>5, <3>1
  <2>2. \A k \in 1..Len(all) : all[k] = u => k = 1
    BY <1>3, <1>6, <2>1
  <2>3. CASE i = 1 \/ j = 1
    BY <1>5, <1>7, <2>2, <2>3
  <2>4. CASE i # 1 /\ j # 1
    <3>1. i - 1 \in 1..Len(rest) /\ j - 1 \in 1..Len(rest) /\ rest[i - 1] = rest[j - 1]
      BY <1>7, <2>1, <2>4
    <3>2. i - 1 = j - 1
      BY <1>4, <1>6, <3>1
    <3> QED BY <3>2
  <2> QED BY <2>3, <2>4
<1>8. n \in 0..Len(all) /\ n <= MaxUrls /\ n \in Nat
  BY <1>1, <1>5
<1>9. Recent(u, urls) = SubSeq(all, 1, n)
  BY DEF Recent, all, rest
<1> HIDE DEF n
<1> DEFINE q == SubSeq(all, 1, n)
<1>10. q \in Seq(Urls) /\ Len(q) = n /\ DOMAIN q = 1..n /\ \A i \in 1..n : q[i] = all[i]
  BY <1>5, <1>8
<1>11. \A i \in 1..n : i \in 1..Len(all)
  BY <1>5, <1>8
<1> HIDE DEF q
<1>12. EachOnce(q)
  BY <1>7, <1>10, <1>11 DEF EachOnce
<1>13. q \in Values("urls")
  BY <1>8, <1>10, UrlLists
<1> QED BY <1>9, <1>12, <1>13 DEF q

LEMMA Defaults == \A s \in Settings : Default(s) \in Values(s)
<1> SUFFICES ASSUME NEW s \in Settings PROVE Default(s) \in Values(s)
  OBVIOUS
<1>1. s \in {"killswitch_mode", "urls"} \cup Flags \cup Keyed \cup Visible \cup Keyless
  BY SettingsAre DEF RowRange, Flags, Keyless
<1>2. CASE s = "killswitch_mode"
  <2>1. Values(s) = Range(Modes) /\ Default(s) = "off"
    BY <1>2, Cases
  <2> QED BY <2>1 DEF Modes, Range
<1>3. CASE s = "urls"
  <2>1. Default(s) = <<>>
    BY <1>3, Cases
  <2>2. <<>> \in Seq(Urls) /\ Len(<<>>) <= MaxUrls
    BY SettingsAssumption
  <2>3. <<>> \in Values("urls")
    BY <2>2, UrlLists
  <2> QED BY <1>3, <2>1, <2>3
<1>4. CASE s \in Flags
  BY <1>4, Cases
<1>5. CASE s \in Keyed
  BY <1>5, Cases
<1>6. CASE s \in Visible \cup Keyless
  BY <1>6, Cases
<1> QED BY <1>1, <1>2, <1>3, <1>4, <1>5, <1>6

\* What may be set for a setting that has no API key.
LEMMA OnOff ==
  ASSUME NEW s \in Settings, s \notin Keyed, s # "killswitch_mode", s # "urls"
  PROVE  {"on", "off"} \subseteq Values(s)
<1>1. s \in Flags \cup Visible \cup Keyless
  BY SettingsAre DEF RowRange, Flags, Keyless
<1> QED BY <1>1, Cases

LEMMA KeyedValues ==
  ASSUME NEW s \in Keyed
  PROVE  s \in Settings /\ s # "urls" /\ ApiKeys \cup {"empty"} \subseteq Values(s)
<1>1. s \in Settings /\ s # "urls"
  BY SettingsAre, SettingsAssumption DEF RowRange
<1> QED BY <1>1, Cases

\* A function that gives each setting a value of its own is a configuration.
LEMMA ConfigsAre ==
  ASSUME NEW c, c = [s \in Settings |-> c[s]], \A s \in Settings : c[s] \in Values(s),
         EachOnce(c["urls"])
  PROVE  c \in Configs
<1>1. \A s \in Settings : c[s] \in AnyValue
  BY DEF AnyValue
<1>2. c \in [Settings -> AnyValue]
  BY <1>1
<1> QED BY <1>2 DEF Configs, IsConfig

LEMMA ConfigsGive ==
  ASSUME NEW c \in Configs
  PROVE  /\ c \in [Settings -> AnyValue] /\ DOMAIN c = Settings /\ c = [s \in Settings |-> c[s]]
         /\ \A s \in Settings : c[s] \in Values(s)
         /\ c["urls"] \in Values("urls") /\ EachOnce(c["urls"]) /\ IsConfig(c)
<1>1. "urls" \in Settings
  BY SettingsAre
<1> QED BY <1>1 DEF Configs, IsConfig

\* One setting of a configuration is set.
LEMMA OneIsSet ==
  ASSUME NEW c \in Configs, NEW s \in Settings, NEW v \in Values(s),
         s = "urls" => EachOnce(v)
  PROVE  [c EXCEPT ![s] = v] \in Configs
<1> DEFINE d == [c EXCEPT ![s] = v]
<1>1. c \in [Settings -> AnyValue]
  BY ConfigsGive
<1>2. d = [q \in Settings |-> IF q = s THEN v ELSE c[q]]
  BY <1>1
<1>3. \A q \in Settings : d[q] = IF q = s THEN v ELSE c[q]
  BY <1>2
<1>4. d = [q \in Settings |-> d[q]]
  BY <1>2
<1> HIDE DEF d
<1>5. \A q \in Settings : d[q] \in Values(q)
  BY <1>3, ConfigsGive
<1>6. "urls" \in Settings
  BY SettingsAre
<1>7. EachOnce(d["urls"])
  BY <1>3, <1>6, ConfigsGive
<1>8. d \in Configs
  BY <1>4, <1>5, <1>7, ConfigsAre
<1> QED BY <1>8 DEF d

\* What load_config makes of a file: a configuration a writer saved is read back
\* as it is.
Loaded(f) == [s \in Settings |-> IF s \in DOMAIN f /\ Known(s, f[s]) THEN f[s] ELSE Default(s)]

LEMMA LoadsWhatIsSaved ==
  ASSUME NEW c \in Configs
  PROVE  Loaded(c) = c
<1>1. \A s \in Settings : s \in DOMAIN c /\ Known(s, c[s])
  BY ConfigsGive DEF Known
<1>2. c = [s \in Settings |-> c[s]]
  BY ConfigsGive
<1> QED BY <1>1, <1>2 DEF Loaded

-----------------------------------------------------------------------------
(* The inductive invariant: each copy is a configuration with distinct      *)
(* URLs, the file's among them, and no API key is typed but for a source   *)
(* that has one.                                                           *)

FileInv == Load \in Configs /\ Load = intent /\ ops \in 0..MaxOps

InView == /\ top <= cursor /\ cursor < top + height
          /\ cursor - top + 1 < height => top = 1 \/ Selectable(top - 1)

WindowInv ==
  /\ wpc \in {"closed", "draw", "keys", "input", "ask"}
  /\ cursor \in Nat /\ top \in Nat \ {0} /\ height \in Heights
  /\ wpc # "closed" => draft \in Configs /\ saved \in Configs /\ OnASetting(cursor)
  /\ wpc = "keys" => InView
  /\ wpc = "input" => Rows[cursor] \in Keyed

MenuInv ==
  /\ op \in [Menus -> {"none", "on", "off", "url", "wizard"}]
  /\ copy \in [Menus -> Configs \cup {<<>>}]
  /\ \A m \in Menus : op[m] # "none" => copy[m] \in Configs

SettingsInv == FileInv /\ WindowInv /\ MenuInv

LEMMA LoadIsLoaded == Load = Loaded(file) /\ Load' = Loaded(file')
BY DEF Load, Loaded

LEMMA InitEstablishesInv == SettingsInit => SettingsInv
<1> SUFFICES ASSUME SettingsInit PROVE SettingsInv
  OBVIOUS
<1>1. file \in FirstFiles /\ intent = Load /\ ops = 0
  BY DEF SettingsInit
<1>2. \A s \in Settings : Load[s] \in Values(s)
  <2> TAKE s \in Settings
  <2>1. Load[s] = IF s \in DOMAIN file /\ Known(s, file[s]) THEN file[s] ELSE Default(s)
    BY DEF Load
  <2>2. s \in DOMAIN file /\ Known(s, file[s]) => file[s] \in Values(s)
    BY <1>1, SettingsAssumption
  <2>3. Default(s) \in Values(s)
    BY Defaults
  <2> QED BY <2>1, <2>2, <2>3
<1>3. EachOnce(Load["urls"])
  <2>1. "urls" \in Settings
    BY SettingsAre
  <2>2. Load["urls"] = IF "urls" \in DOMAIN file /\ Known("urls", file["urls"])
                       THEN file["urls"] ELSE Default("urls")
    BY <2>1 DEF Load
  <2>3. Default("urls") = <<>>
    BY <2>1, Cases
  <2>4. "urls" \in DOMAIN file => EachOnce(file["urls"])
    BY <1>1, SettingsAssumption
  <2>5. EachOnce(<<>>)
    BY DEF EachOnce
  <2> QED BY <2>2, <2>3, <2>4, <2>5
<1>4. Load = [s \in Settings |-> Load[s]]
  BY DEF Load
<1>5. Load \in Configs
  BY <1>2, <1>3, <1>4, ConfigsAre
<1>6. FileInv
  BY <1>1, <1>5, SettingsAssumption DEF FileInv
<1>7. WindowInv
  BY DEF SettingsInit, WindowInv
<1>8. MenuInv
  BY DEF SettingsInit, MenuInv
<1> QED BY <1>6, <1>7, <1>8 DEF SettingsInv

\* A save keeps what the users set, when it writes what its copy said of the
\* settings it did not edit.
LEMMA SaveKeepsFileInv ==
  ASSUME FileInv, NEW new \in Configs, NEW base \in Configs, NEW edited,
         \A s \in Settings : s \notin edited => new[s] = base[s],
         Save(new, edited, base), ops' \in 0..MaxOps
  PROVE  FileInv'
<1>1. file' = new
  BY DEF Save
<1>2. Load' = new
  BY <1>1, LoadIsLoaded, LoadsWhatIsSaved
<1>3. intent' = [s \in Settings |-> IF s \in edited \/ base[s] # Load[s] THEN new[s] ELSE intent[s]]
  BY DEF Save
<1>4. \A s \in Settings : (IF s \in edited \/ base[s] # Load[s] THEN new[s] ELSE intent[s]) = new[s]
  BY DEF FileInv
<1>5. new = [s \in Settings |-> new[s]]
  BY ConfigsGive
<1>6. intent' = new
  BY <1>3, <1>4, <1>5
<1> QED BY <1>2, <1>6 DEF FileInv

LEMMA SameFile == ASSUME FileInv, file' = file, intent' = intent, ops' \in 0..MaxOps PROVE FileInv'
<1>1. Load' = Load
  BY LoadIsLoaded
<1> QED BY <1>1 DEF FileInv

LEMMA SameMenus == ASSUME MenuInv, op' = op, copy' = copy PROVE MenuInv'
BY DEF MenuInv

LEMMA SameWindow == ASSUME WindowInv, windowVars' = windowVars PROVE WindowInv'
BY DEF WindowInv, windowVars, InView, OnASetting, Selectable

-----------------------------------------------------------------------------
(* The window's steps.                                                     *)

\* A window that is closed, or open with its copies and its cursor in order.
LEMMA WindowIs ==
  ASSUME wpc' \in {"closed", "draw", "ask"}, cursor' \in Nat, top' \in Nat \ {0},
         height' \in Heights,
         wpc' # "closed" => draft' \in Configs /\ saved' \in Configs /\ OnASetting(cursor')
  PROVE  WindowInv'
BY DEF WindowInv, OnASetting, Selectable

LEMMA WindowOpensKeepsInv == SettingsInv /\ WindowOpens => SettingsInv'
<1> SUFFICES ASSUME SettingsInv, WindowOpens PROVE SettingsInv'
  OBVIOUS
<1>1. PICK i \in DOMAIN Rows : Selectable(i) /\ \A j \in 1..(i - 1) : ~Selectable(j)
  <2> DEFINE S == {j \in DOMAIN Rows : Selectable(j)}
  <2>1. S \in SUBSET Nat /\ S # {}
    BY RowsAre, SettingsAssumption DEF Selectable
  <2>2. PICK k \in S : \A j \in S : k <= j
    <3> HIDE DEF S
    <3> QED BY <2>1, LeastOne
  <2>3. ASSUME NEW j \in 1..(k - 1) PROVE ~Selectable(j)
    <3>1. k \in 1..Len(Rows) /\ Len(Rows) \in Nat
      BY RowsAre
    <3>2. j \in DOMAIN Rows /\ ~(k <= j)
      BY <3>1, RowsAre
    <3> QED BY <2>2, <3>2
  <2> QED BY <2>3
<1>2. OnASetting(cursor')
  <2>1. cursor' = CHOOSE j \in DOMAIN Rows : Selectable(j) /\ \A k \in 1..(j - 1) : ~Selectable(k)
    BY DEF WindowOpens
  <2> HIDE DEF Selectable
  <2> QED BY <1>1, <2>1 DEF OnASetting
<1>3. cursor' \in Nat
  BY <1>2, RowsAre DEF OnASetting
<1>4. draft' \in Configs /\ saved' \in Configs
  BY DEF SettingsInv, FileInv, WindowOpens
<1>5. WindowInv'
  BY <1>2, <1>3, <1>4, WindowIs DEF SettingsInv, WindowInv, WindowOpens
<1>6. FileInv'
  BY SameFile, SettingsAssumption DEF SettingsInv, FileInv, WindowOpens, Begin
<1>7. MenuInv'
  BY SameMenus DEF SettingsInv, WindowOpens
<1> QED BY <1>5, <1>6, <1>7 DEF SettingsInv

LEMMA RedrawKeepsInv == ASSUME NEW h \in Heights, SettingsInv, Redraw(h) PROVE SettingsInv'
<1> DEFINE least == IF top > cursor - h + 1 THEN top ELSE cursor - h + 1
           start == IF least < cursor THEN least ELSE cursor
<1>1. /\ h \in Nat /\ h > 0 /\ cursor \in Nat /\ cursor >= 1 /\ top \in Nat /\ top >= 1
      /\ OnASetting(cursor) /\ draft \in Configs /\ saved \in Configs
  <2>1. OnASetting(cursor) /\ cursor \in Nat /\ top \in Nat \ {0} /\ draft \in Configs /\ saved \in Configs
    BY DEF SettingsInv, WindowInv, Redraw
  <2> QED BY <2>1, SettingsAssumption, RowsAre DEF OnASetting
<1>2. start \in Nat \ {0} /\ start <= cursor /\ cursor < start + h
  BY <1>1
<1>3. /\ wpc' = "keys" /\ height' = h /\ top' = Lifted(start, h) /\ cursor' = cursor
      /\ draft' = draft /\ saved' = saved
  BY DEF Redraw
<1> HIDE DEF start
<1>4. /\ top' \in Nat /\ top' >= 1 /\ top' <= cursor /\ cursor < top' + h
      /\ cursor - top' + 1 < h => top' = 1 \/ Selectable(top' - 1)
  BY <1>1, <1>2, <1>3, LiftedKeepsInView
<1>5. InView'
  BY <1>3, <1>4 DEF InView, Selectable
<1>6. WindowInv'
  BY <1>1, <1>3, <1>4, <1>5 DEF WindowInv, OnASetting, Selectable
<1>7. FileInv'
  BY SameFile DEF SettingsInv, FileInv, Redraw
<1>8. MenuInv'
  BY SameMenus DEF SettingsInv, Redraw
<1> QED BY <1>6, <1>7, <1>8 DEF SettingsInv

LEMMA MoveKeepsInv == ASSUME NEW delta \in Int, SettingsInv, Move(delta) PROVE SettingsInv'
<1>1. OnASetting(cursor')
  BY MoveByIsASetting DEF SettingsInv, WindowInv, Move
<1>2. cursor' \in Nat
  BY <1>1, RowsAre DEF OnASetting
<1>3. WindowInv'
  BY <1>1, <1>2, WindowIs DEF SettingsInv, WindowInv, Move
<1>4. FileInv'
  BY SameFile DEF SettingsInv, FileInv, Move
<1>5. MenuInv'
  BY SameMenus DEF SettingsInv, Move
<1> QED BY <1>3, <1>4, <1>5 DEF SettingsInv

LEMMA ActivateKeepsInv == SettingsInv /\ Activate => SettingsInv'
<1> SUFFICES ASSUME SettingsInv, Activate PROVE SettingsInv'
  OBVIOUS
<1> DEFINE s == Rows[cursor]
<1>1. draft \in Configs /\ saved \in Configs /\ OnASetting(cursor) /\ cursor \in Nat
  BY DEF SettingsInv, WindowInv, Activate
<1>2. s \in RowRange /\ s \in Settings /\ s # "urls"
  <2>1. s \in Range(Rows) /\ s # Header
    BY <1>1 DEF OnASetting, Selectable, Range
  <2>2. s \in RowRange
    BY <2>1, RowsAre
  <2>3. s # "urls"
    BY <2>2, SettingsAssumption DEF RowRange
  <2> QED BY <2>2, <2>3, SettingsAre
<1>3. CASE s \in Keyed
  <2>1. /\ wpc' = "input" /\ draft' = draft /\ saved' = saved /\ cursor' = cursor
        /\ top' = top /\ height' = height
    BY <1>3 DEF Activate
  <2> QED BY <1>1, <1>3, <2>1, SameFile, SameMenus
       DEF SettingsInv, WindowInv, FileInv, Activate, OnASetting, Selectable
<1>4. CASE s \notin Keyed
  <2>1. /\ wpc' = "draw" /\ draft' = [draft EXCEPT ![s] = Flip(s, draft[s])]
        /\ saved' = saved /\ cursor' = cursor /\ top' = top /\ height' = height
    BY <1>4 DEF Activate
  <2>2. Flip(s, draft[s]) \in Values(s)
    <3>1. CASE s = "killswitch_mode"
      <4>1. Values(s) = {"off", "happ", "all"}
        <5>1. Values(s) = Range(Modes)
          BY <1>2, <3>1, Cases
        <5>2. Range(Modes) = {"off", "happ", "all"}
          BY DEF Modes, Range
        <5> QED BY <5>1, <5>2
      <4>2. draft[s] \in {"off", "happ", "all"}
        BY <1>1, <1>2, <4>1, ConfigsGive
      <4> HIDE DEF s
      <4>3. Flip(s, draft[s]) = NextMode(draft[s])
        BY <3>1 DEF Flip
      <4> QED BY <4>1, <4>2, <4>3 DEF NextMode
    <3>2. CASE s # "killswitch_mode"
      <4>1. {"on", "off"} \subseteq Values(s)
        BY <1>2, <1>4, <3>2, OnOff
      <4> HIDE DEF s
      <4> QED BY <3>2, <4>1 DEF Flip
    <3> QED BY <3>1, <3>2
  <2> HIDE DEF s
  <2>3. draft' \in Configs
    BY <1>1, <1>2, <2>1, <2>2, OneIsSet
  <2>4. WindowInv'
    BY <1>1, <2>1, <2>3, WindowIs DEF SettingsInv, WindowInv
  <2> QED BY <2>4, SameFile, SameMenus DEF SettingsInv, FileInv, Activate
<1> QED BY <1>3, <1>4

LEMMA SetApiKeyKeepsInv == SettingsInv /\ SetApiKey => SettingsInv'
<1> SUFFICES ASSUME SettingsInv, SetApiKey PROVE SettingsInv'
  OBVIOUS
<1> DEFINE s == Rows[cursor]
<1>1. /\ draft \in Configs /\ saved \in Configs /\ OnASetting(cursor) /\ cursor \in Nat
      /\ s \in Keyed
  BY DEF SettingsInv, WindowInv, SetApiKey
<1>2. draft' \in Configs
  <2>1. draft' = draft \/ \E v \in ApiKeys \cup {"empty"} : draft' = [draft EXCEPT ![s] = v]
    BY DEF SetApiKey
  <2> HIDE DEF s
  <2>2. CASE draft' = draft
    BY <1>1, <2>2
  <2>3. ASSUME NEW v \in ApiKeys \cup {"empty"}, draft' = [draft EXCEPT ![s] = v]
        PROVE  draft' \in Configs
    <3>1. s \in Settings /\ s # "urls" /\ v \in Values(s)
      BY <1>1, KeyedValues
    <3> QED BY <1>1, <2>3, <3>1, OneIsSet
  <2> QED BY <2>1, <2>2, <2>3
<1>3. WindowInv'
  BY <1>1, <1>2, WindowIs DEF SettingsInv, WindowInv, SetApiKey
<1>4. FileInv'
  BY SameFile DEF SettingsInv, FileInv, SetApiKey
<1>5. MenuInv'
  BY SameMenus DEF SettingsInv, SetApiKey
<1> QED BY <1>3, <1>4, <1>5 DEF SettingsInv

LEMMA CloseKeepsWindowInv == SettingsInv /\ Close => WindowInv' /\ MenuInv' /\ ops' \in 0..MaxOps
<1> SUFFICES ASSUME SettingsInv, Close PROVE WindowInv' /\ MenuInv' /\ ops' \in 0..MaxOps
  OBVIOUS
<1>1. WindowInv'
  BY WindowIs DEF SettingsInv, WindowInv, Close
<1>2. MenuInv'
  BY SameMenus DEF SettingsInv, Close
<1> QED BY <1>1, <1>2 DEF SettingsInv, FileInv, Close

LEMMA SaveAndCloseKeepsInv == SettingsInv /\ SaveAndClose => SettingsInv'
<1> SUFFICES ASSUME SettingsInv, SaveAndClose PROVE SettingsInv'
  OBVIOUS
<1>1. WindowInv' /\ MenuInv' /\ ops' \in 0..MaxOps
  BY CloseKeepsWindowInv DEF SaveAndClose
<1>2. CASE Dirty /\ Save(draft, {s \in Settings : draft[s] # saved[s]}, saved)
  <2>1. draft \in Configs /\ saved \in Configs
    BY DEF SettingsInv, WindowInv, SaveAndClose
  <2>2. FileInv'
    BY <1>1, <1>2, <2>1, SaveKeepsFileInv DEF SettingsInv
  <2> QED BY <1>1, <2>2 DEF SettingsInv
<1>3. CASE UNCHANGED <<file, intent>>
  BY <1>1, <1>3, SameFile DEF SettingsInv
<1> QED BY <1>2, <1>3 DEF SaveAndClose

LEMMA QuitKeepsInv == SettingsInv /\ (Quit \/ Discard) => SettingsInv'
<1> SUFFICES ASSUME SettingsInv, Quit \/ Discard PROVE SettingsInv'
  OBVIOUS
<1>1. Close /\ UNCHANGED <<file, intent>>
  BY DEF Quit, Discard
<1>2. WindowInv' /\ MenuInv' /\ ops' \in 0..MaxOps
  BY <1>1, CloseKeepsWindowInv
<1> QED BY <1>1, <1>2, SameFile DEF SettingsInv

LEMMA AskKeepsInv == SettingsInv /\ (QuitAsks \/ StayOpen) => SettingsInv'
<1> SUFFICES ASSUME SettingsInv, QuitAsks \/ StayOpen PROVE SettingsInv'
  OBVIOUS
<1>1. /\ wpc # "closed" /\ wpc' \in {"ask", "draw"}
      /\ UNCHANGED <<file, saved, draft, cursor, top, height, op, copy, ops, intent>>
  BY DEF QuitAsks, StayOpen
<1>2. WindowInv'
  BY <1>1, WindowIs DEF SettingsInv, WindowInv
<1> QED BY <1>1, <1>2, SameFile, SameMenus DEF SettingsInv, FileInv

-----------------------------------------------------------------------------
(* The menus' steps.                                                       *)

LEMMA MenuLoadsKeepsInv == ASSUME NEW m \in Menus, SettingsInv, MenuLoads(m) PROVE SettingsInv'
<1>1. PICK o \in {"on", "off", "url", "wizard"} : op' = [op EXCEPT ![m] = o]
  BY DEF MenuLoads
<1>2. copy' = [copy EXCEPT ![m] = Load] /\ Load \in Configs
  BY DEF MenuLoads, SettingsInv, FileInv
<1>3. MenuInv'
  <2> HIDE DEF Load
  <2>1. op \in [Menus -> {"none", "on", "off", "url", "wizard"}]
        /\ copy \in [Menus -> Configs \cup {<<>>}]
    BY DEF SettingsInv, MenuInv
  <2>2. op' \in [Menus -> {"none", "on", "off", "url", "wizard"}]
        /\ copy' \in [Menus -> Configs \cup {<<>>}]
    BY <1>1, <1>2, <2>1
  <2>3. ASSUME NEW q \in Menus, op'[q] # "none" PROVE copy'[q] \in Configs
    <3>1. CASE q = m
      BY <1>2, <2>1, <3>1
    <3>2. CASE q # m
      <4>1. op'[q] = op[q] /\ copy'[q] = copy[q]
        BY <1>1, <1>2, <2>1, <3>2
      <4> QED BY <2>3, <4>1 DEF SettingsInv, MenuInv
    <3> QED BY <3>1, <3>2
  <2> QED BY <2>2, <2>3 DEF MenuInv
<1>4. FileInv'
  BY SameFile, SettingsAssumption DEF SettingsInv, FileInv, MenuLoads, Begin
<1>5. WindowInv'
  BY SameWindow DEF SettingsInv, MenuLoads
<1> QED BY <1>3, <1>4, <1>5 DEF SettingsInv

LEMMA MenuSavesKeepsInv ==
  ASSUME SettingsInv, NEW m \in Menus, op[m] # "none", NEW new \in Configs, NEW edited,
         \A s \in Settings : s \notin edited => new[s] = copy[m][s],
         MenuSaves(m, new, edited)
  PROVE  SettingsInv'
<1>1. /\ op \in [Menus -> {"none", "on", "off", "url", "wizard"}]
      /\ copy \in [Menus -> Configs \cup {<<>>}] /\ copy[m] \in Configs
  BY DEF SettingsInv, MenuInv
<1>2. /\ Save(new, edited, copy[m]) /\ op' = [op EXCEPT ![m] = "none"]
      /\ copy' = [copy EXCEPT ![m] = <<>>] /\ windowVars' = windowVars /\ ops' = ops
  BY DEF MenuSaves
<1>3. FileInv'
  BY <1>1, <1>2, SaveKeepsFileInv DEF SettingsInv, FileInv
<1>4. WindowInv'
  BY <1>2, SameWindow DEF SettingsInv
<1>5. MenuInv'
  <2>1. op' \in [Menus -> {"none", "on", "off", "url", "wizard"}]
        /\ copy' \in [Menus -> Configs \cup {<<>>}]
    BY <1>1, <1>2
  <2>2. ASSUME NEW q \in Menus, op'[q] # "none" PROVE copy'[q] \in Configs
    <3>1. q # m
      BY <1>1, <1>2, <2>2
    <3>2. op'[q] = op[q] /\ copy'[q] = copy[q]
      BY <1>1, <1>2, <3>1
    <3> QED BY <2>2, <3>2 DEF SettingsInv, MenuInv
  <2> QED BY <2>1, <2>2 DEF MenuInv
<1> QED BY <1>3, <1>4, <1>5 DEF SettingsInv

LEMMA SetModeKeepsInv == ASSUME NEW m \in Menus, SettingsInv, SetMode(m) PROVE SettingsInv'
<1> DEFINE s == "killswitch_mode"
           v == IF op[m] = "on" THEN "all" ELSE "off"
           new == [copy[m] EXCEPT ![s] = v]
<1>1. op[m] # "none" /\ MenuSaves(m, new, {s})
  BY DEF SetMode
<1>2. copy[m] \in Configs
  BY <1>1 DEF SettingsInv, MenuInv
<1>3. s \in Settings /\ s # "urls" /\ v \in Values(s)
  <2>1. s \in Settings
    BY SettingsAre
  <2>2. Values(s) = Range(Modes)
    BY <2>1, Cases
  <2>3. "all" \in Range(Modes) /\ "off" \in Range(Modes)
    BY DEF Modes, Range
  <2> QED BY <2>1, <2>2, <2>3
<1> HIDE DEF s, v
<1>4. new \in Configs
  BY <1>2, <1>3, OneIsSet
<1>5. \A q \in Settings : q \notin {s} => new[q] = copy[m][q]
  BY <1>2, ConfigsGive
<1> HIDE DEF new
<1> QED BY <1>1, <1>4, <1>5, MenuSavesKeepsInv

LEMMA CustomUrlKeepsInv ==
  ASSUME NEW m \in Menus, NEW u \in Urls, SettingsInv, CustomUrl(m, u)
  PROVE  SettingsInv'
<1> DEFINE s == "urls"
           v == Recent(u, copy[m]["urls"])
           new == [copy[m] EXCEPT ![s] = v]
<1>1. op[m] # "none" /\ MenuSaves(m, new, {s})
  BY DEF CustomUrl
<1>2. copy[m] \in Configs
  BY <1>1 DEF SettingsInv, MenuInv
<1>3. s \in Settings /\ v \in Values(s) /\ EachOnce(v)
  BY <1>2, ConfigsGive, RecentUrls, SettingsAre
<1> HIDE DEF s, v
<1>4. new \in Configs
  BY <1>2, <1>3, OneIsSet
<1>5. \A q \in Settings : q \notin {s} => new[q] = copy[m][q]
  BY <1>2, ConfigsGive
<1> HIDE DEF new
<1> QED BY <1>1, <1>4, <1>5, MenuSavesKeepsInv

LEMMA WizardKeepsInv ==
  ASSUME NEW m \in Menus, NEW answer \in [Asked -> {"on", "off"}],
         NEW set \in SUBSET Keyed, NEW typed \in [set -> ApiKeys],
         SettingsInv, Wizard(m, answer, typed)
  PROVE  SettingsInv'
<1> DEFINE base == copy[m]
           new == [s \in Settings |-> IF s \in Asked THEN answer[s]
                                      ELSE IF s \in DOMAIN typed THEN typed[s] ELSE base[s]]
           edited == Asked \cup DOMAIN typed
<1>1. op[m] # "none" /\ MenuSaves(m, new, edited)
  BY DEF Wizard
<1>2. base \in Configs
  BY <1>1 DEF SettingsInv, MenuInv
<1>3. Asked \cap (Keyed \cup {"killswitch_mode", "urls"}) = {}
  BY SettingsAssumption DEF Asked, Keyless, Flags
<1>4. ASSUME NEW s \in Settings PROVE new[s] \in Values(s)
  <2>1. CASE s \in Asked
    <3>1. new[s] \in {"on", "off"}
      BY <2>1
    <3>2. {"on", "off"} \subseteq Values(s)
      BY <1>3, <2>1, OnOff
    <3> QED BY <3>1, <3>2
  <2>2. CASE s \notin Asked /\ s \in set
    <3>1. new[s] \in ApiKeys
      BY <2>2
    <3> QED BY <2>2, <3>1, KeyedValues
  <2>3. CASE s \notin Asked /\ s \notin set
    <3>1. new[s] = base[s]
      BY <2>3
    <3> QED BY <1>2, <3>1, ConfigsGive
  <2> QED BY <2>1, <2>2, <2>3
<1>5. EachOnce(new["urls"])
  <2>1. "urls" \in Settings /\ "urls" \notin Asked /\ "urls" \notin set
    <3>1. "urls" \notin Keyed
      BY KeyedValues
    <3> QED BY <1>3, <3>1, SettingsAre
  <2>2. new["urls"] = base["urls"]
    BY <2>1
  <2> QED BY <1>2, <2>2, ConfigsGive
<1>6. \A s \in Settings : s \notin edited => new[s] = base[s]
  OBVIOUS
<1>7. new = [s \in Settings |-> new[s]]
  OBVIOUS
<1> HIDE DEF new, edited
<1>8. new \in Configs
  BY <1>4, <1>5, <1>7, ConfigsAre
<1> QED BY <1>1, <1>6, <1>8, MenuSavesKeepsInv

-----------------------------------------------------------------------------
(* The theorems.                                                           *)

LEMMA StepKeepsInv == SettingsInv /\ [SettingsNext]_settingsVars => SettingsInv'
<1> SUFFICES ASSUME SettingsInv, [SettingsNext]_settingsVars PROVE SettingsInv'
  OBVIOUS
<1>1. CASE Window
  <2>1. ASSUME NEW delta \in {1, -1, height, -height}, Move(delta) PROVE SettingsInv'
    <3>1. height \in Nat
      BY SettingsAssumption DEF SettingsInv, WindowInv
    <3>2. delta \in Int
      BY <3>1
    <3> QED BY <2>1, <3>2, MoveKeepsInv
  <2> QED BY <1>1, <2>1, WindowOpensKeepsInv, RedrawKeepsInv, ActivateKeepsInv,
             SetApiKeyKeepsInv, SaveAndCloseKeepsInv, QuitKeepsInv, AskKeepsInv DEF Window
<1>2. CASE \E m \in Menus : Menu(m)
  <2>1. PICK m \in Menus : Menu(m)
    BY <1>2
  <2> QED BY <2>1, MenuLoadsKeepsInv, SetModeKeepsInv, CustomUrlKeepsInv, WizardKeepsInv DEF Menu
<1>3. CASE UNCHANGED settingsVars
  <2>1. /\ UNCHANGED <<file, op, copy, ops, intent>> /\ windowVars' = windowVars
    BY <1>3 DEF settingsVars
  <2> QED BY <2>1, SameFile, SameWindow, SameMenus DEF SettingsInv, FileInv
<1> QED BY <1>1, <1>2, <1>3 DEF SettingsNext

THEOREM SettingsInvariant == SettingsSpec => []SettingsInv
BY InitEstablishesInv, StepKeepsInv, PTL DEF SettingsSpec

\* Every copy that a window or a menu has, and the file, is a configuration the
\* program can have: each setting with a value of its own (config.py load_config,
\* settings_tui.py activate, set_api_key).
THEOREM SettingsTypes == SettingsSpec => []SettingsTypeOK
<1>1. SettingsInv => SettingsTypeOK
  BY ConfigsGive DEF SettingsInv, FileInv, WindowInv, MenuInv, SettingsTypeOK
<1> QED BY <1>1, SettingsInvariant, PTL

\* However many processes save whole copies, only a copy that was stale undoes
\* what a user set last: no save drops a setting it did not edit.
THEOREM NothingElseIsLost == SettingsSpec => []LostOnlyByStaleSave
<1>1. SettingsInv => LostOnlyByStaleSave
  BY DEF SettingsInv, FileInv, LostOnlyByStaleSave
<1> QED BY <1>1, SettingsInvariant, PTL

\* With any list of sections and any heights of the terminal, the cursor is on
\* a setting that is shown, and its header is shown when there is room
\* (settings_tui.py SettingsState.move and the loop of run).
THEOREM CursorStaysInView == SettingsSpec => []CursorInView
<1>1. SettingsInv => CursorInView
  <2> SUFFICES ASSUME SettingsInv PROVE CursorInView
    OBVIOUS
  <2>1. top >= 1
    BY DEF SettingsInv, WindowInv
  <2> QED BY <2>1 DEF SettingsInv, WindowInv, InView, OnASetting, CursorInView
<1> QED BY <1>1, SettingsInvariant, PTL

\* The speed test never remembers a URL twice, from whatever copies it is
\* saved (vpn_manager.py _speed_test_custom_url).
THEOREM UrlsStayDistinct == SettingsSpec => []UrlsDistinct
<1>1. SettingsInv => UrlsDistinct
  BY ConfigsGive DEF SettingsInv, FileInv, UrlsDistinct
<1> QED BY <1>1, SettingsInvariant, PTL
=============================================================================
