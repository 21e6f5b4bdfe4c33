------------------------------ MODULE Settings ------------------------------
(***************************************************************************)
(* config.json and those who write it: the Settings window                 *)
(* (settings_tui.py), the killswitch toggle, the speed test's list of own  *)
(* URLs and the configure wizard (vpn_manager.py).  Each loads the whole   *)
(* file, changes its copy and saves the whole copy; nothing locks.         *)
(***************************************************************************)
EXTENDS ListOps, FiniteSets, Functions

CONSTANTS
  General,       \* the rows under General; "killswitch_mode" is one of them
  ProviderRows,  \* ALL_PROVIDERS, one row each
  ToolRows,      \* _settings_tool_keys()
  SourceRows,    \* ipsources.ALL_SOURCES
  Keyed,         \* the sources that need an API key
  ApiKeys,       \* keys a user may type
  Urls, MaxUrls, \* speed test URLs, and SPEED_TEST_MAX_URLS
  Heights,       \* how many rows the terminal may show
  Menus,         \* processes that write the file besides the window
  FirstFiles,    \* what the program may have left in the file: some settings
  MaxOps,        \* bound: how many of them begin
  Header         \* a section header, which is no setting

Modes == <<"off", "happ", "all">>
Sections == <<General, ProviderRows, ToolRows, SourceRows>>
Rows == <<Header>> \o General \o <<Header>> \o ProviderRows
          \o <<Header>> \o ToolRows \o <<Header>> \o SourceRows

Flags    == Range(General) \ {"killswitch_mode"}
Visible  == Range(ProviderRows) \cup Range(ToolRows)
Keyless  == Range(SourceRows) \ Keyed
Settings == (Range(Rows) \ {Header}) \cup {"killswitch_mode", "urls"}

\* "unset": no entry; "empty": an entry without an API key.  A general flag is
\* never unset, and dns_mode is "on" for "tunnel".
Values(s) ==
  CASE s = "killswitch_mode" -> Range(Modes)
    [] s = "urls"            -> UNION {[1..n -> Urls] : n \in 0..MaxUrls}
    [] s \in Flags           -> {"on", "off"}
    [] s \in Keyed           -> {"unset", "empty"} \cup ApiKeys
    [] OTHER                 -> {"unset", "on", "off"}

Default(s) ==
  CASE s = "killswitch_mode" -> "off"
    [] s = "urls"            -> <<>>
    [] s \in {"dns_mode", "exit_ip"}         -> "on"
    [] s \in Flags \ {"dns_mode", "exit_ip"} -> "off"
    [] OTHER                 -> "unset"

\* load_config takes these only as values it knows.
Known(s, v) == s \in {"killswitch_mode", "dns_mode"} => v \in Values(s)

EachOnce(list) == \A i, j \in DOMAIN list : list[i] = list[j] => i = j

\* A row's key names its section; an older version wrote modes of its own.
ASSUME SettingsAssumption ==
  /\ \A list \in {General, ProviderRows, ToolRows, SourceRows} : list \in Seq(Range(list))
  /\ \E i \in DOMAIN Rows : Rows[i] # Header
  /\ Header \notin Visible \cup Range(General) \cup Range(SourceRows)
  /\ Range(General) \cap (Visible \cup Range(SourceRows)) = {}
  /\ Visible \cap Range(SourceRows) = {} /\ Keyed \subseteq Range(SourceRows)
  /\ {"killswitch_mode", "dns_mode", "exit_ip", "urls"}
       \cap (Visible \cup Range(SourceRows)) = {}
  /\ "urls" \notin Range(General) /\ Header # "urls"
  /\ MaxUrls \in Nat \ {0} /\ MaxOps \in Nat /\ Heights \subseteq Nat \ {0}
  /\ \A f \in FirstFiles :
       /\ DOMAIN f \subseteq Settings
       /\ \A s \in DOMAIN f : Known(s, f[s]) => f[s] \in Values(s)
       /\ "urls" \in DOMAIN f => EachOnce(f["urls"])

VARIABLES
  file,    \* config.json: all keys are optional
  wpc,     \* the window: closed, draw, keys, input (an API key), ask (save?)
  saved, draft, cursor, top, height,
  op, copy,   \* what each menu process does, and the Config it loaded
  ops,        \* how many have begun
  intent      \* history: what the users have set, see LostOnlyByStaleSave

windowVars  == <<wpc, saved, draft, cursor, top, height>>
settingsVars == <<file, windowVars, op, copy, ops, intent>>

IsConfig(c) == DOMAIN c = Settings /\ \A s \in Settings : c[s] \in Values(s)

\* Mutant: the mode of the file is taken as it is.
LoadUnchecked == [s \in Settings |-> IF s \in DOMAIN file THEN file[s] ELSE Default(s)]

\* load_config: what is missing or not a known mode has its default.
Load == [s \in Settings |->
           IF s \in DOMAIN file /\ Known(s, file[s]) THEN file[s] ELSE Default(s)]

Begin == ops < MaxOps /\ ops' = ops + 1

\* The whole copy goes into the file: what the writer set (edited) and the rest
\* as it was when base was loaded.
Save(new, edited, base) ==
  /\ file' = new
  /\ intent' = [s \in Settings |->
       IF s \in edited \/ base[s] # Load[s] THEN new[s] ELSE intent[s]]

-----------------------------------------------------------------------------
(* The Settings window.                                                    *)

Selectable(i) == Rows[i] # Header

WindowOpens ==
  /\ wpc = "closed" /\ Begin
  /\ wpc' = "draw"
  /\ saved' = Load /\ draft' = Load
  /\ cursor' = CHOOSE i \in DOMAIN Rows :
                 Selectable(i) /\ \A j \in 1..(i - 1) : ~Selectable(j)
  /\ top' = 1
  /\ UNCHANGED <<file, height, op, copy, intent>>

\* From row start up past the headers, while the cursor stays among h rows.
Lifted(start, h) ==
  LET Lift[t \in 1..start] ==
        IF t > 1 /\ ~Selectable(t - 1) /\ cursor - t + 1 < h THEN Lift[t - 1] ELSE t
  IN Lift[start]

\* The top of the loop: keep the cursor in view, then show the section header
\* above it while there is room.
Redraw(h) ==
  LET least == IF top > cursor - h + 1 THEN top ELSE cursor - h + 1
      start == IF least < cursor THEN least ELSE cursor
  IN /\ wpc = "draw"
     /\ wpc' = "keys"
     /\ height' = h /\ top' = Lifted(start, h)
     /\ UNCHANGED <<file, saved, draft, cursor, op, copy, ops, intent>>

\* Mutant: headers are not skipped.
NextRowAny(i, step) == IF i + step \in DOMAIN Rows THEN i + step ELSE i

\* The row one step up or down that is not a header; the same row at the ends.
NextRow(i, step) ==
  LET ahead == {j \in DOMAIN Rows : Selectable(j) /\ (j - i) * step > 0}
  IN IF ahead = {} THEN i
     ELSE CHOOSE j \in ahead : \A k \in ahead : (k - j) * step >= 0

MoveBy(delta) ==
  LET size == IF delta > 0 THEN delta ELSE -delta
      Hop[n \in 0..size] ==
        IF n = 0 THEN cursor ELSE NextRow(Hop[n - 1], IF delta > 0 THEN 1 ELSE -1)
  IN Hop[size]

Move(delta) ==
  /\ wpc = "keys"
  /\ cursor' = MoveBy(delta)
  /\ wpc' = "draw"
  /\ UNCHANGED <<file, saved, draft, top, height, op, copy, ops, intent>>

NextMode(m) == CASE m = "off" -> "happ" [] m = "happ" -> "all" [] m = "all" -> "off"
Flip(s, v) ==
  IF s = "killswitch_mode" THEN NextMode(v) ELSE IF v = "off" THEN "on" ELSE "off"

Activate ==
  LET s == Rows[cursor]
  IN /\ wpc = "keys"
     /\ \/ /\ s \in Keyed
           /\ wpc' = "input" /\ UNCHANGED draft
        \/ /\ s \notin Keyed
           /\ draft' = [draft EXCEPT ![s] = Flip(s, @)]
           /\ wpc' = "draw"
     /\ UNCHANGED <<file, saved, cursor, top, height, op, copy, ops, intent>>

\* Esc keeps the key, an empty line removes it.
SetApiKey ==
  /\ wpc = "input"
  /\ \/ UNCHANGED draft
     \/ \E v \in ApiKeys \cup {"empty"} : draft' = [draft EXCEPT ![Rows[cursor]] = v]
  /\ wpc' = "draw"
  /\ UNCHANGED <<file, saved, cursor, top, height, op, copy, ops, intent>>

Close ==
  /\ wpc' = "closed"
  /\ saved' = <<>> /\ draft' = <<>> /\ cursor' = 1 /\ top' = 1
  /\ UNCHANGED <<height, op, copy, ops>>

Dirty == draft # saved

SaveAndClose ==
  /\ wpc \in {"keys", "ask"}
  /\ \/ Dirty /\ Save(draft, {s \in Settings : draft[s] # saved[s]}, saved)
     \/ ~Dirty /\ UNCHANGED <<file, intent>>
  /\ Close

Quit ==
  /\ wpc = "keys" /\ ~Dirty
  /\ UNCHANGED <<file, intent>>
  /\ Close

QuitAsks ==
  /\ wpc = "keys" /\ Dirty
  /\ wpc' = "ask"
  /\ UNCHANGED <<file, saved, draft, cursor, top, height, op, copy, ops, intent>>

Discard ==
  /\ wpc = "ask"
  /\ UNCHANGED <<file, intent>>
  /\ Close

StayOpen ==
  /\ wpc = "ask"
  /\ wpc' = "draw"
  /\ UNCHANGED <<file, saved, draft, cursor, top, height, op, copy, ops, intent>>

Window ==
  \/ WindowOpens \/ Activate \/ SetApiKey \/ SaveAndClose
  \/ Quit \/ QuitAsks \/ Discard \/ StayOpen
  \/ \E h \in Heights : Redraw(h)
  \/ \E delta \in {1, -1, height, -height} : Move(delta)

-----------------------------------------------------------------------------
(* The menu's own writers.                                                 *)

MenuLoads(m) ==
  /\ op[m] = "none" /\ Begin
  /\ \E o \in {"on", "off", "url", "wizard"} : op' = [op EXCEPT ![m] = o]
  /\ copy' = [copy EXCEPT ![m] = Load]
  /\ UNCHANGED <<file, windowVars, intent>>

MenuSaves(m, new, edited) ==
  /\ Save(new, edited, copy[m])
  /\ op' = [op EXCEPT ![m] = "none"]
  /\ copy' = [copy EXCEPT ![m] = <<>>]
  /\ UNCHANGED <<windowVars, ops>>

\* Mutant: a new Config instead of the loaded one.
SetModeAnew(m) ==
  /\ op[m] \in {"on", "off"}
  /\ MenuSaves(m, [s \in Settings |-> IF s # "killswitch_mode" THEN Default(s)
                                      ELSE IF op[m] = "on" THEN "all" ELSE "off"],
               {"killswitch_mode"})

\* killswitch.set_mode; the rules follow after the save (module Guard).
SetMode(m) ==
  /\ op[m] \in {"on", "off"}
  /\ MenuSaves(m, [copy[m] EXCEPT !["killswitch_mode"] = IF op[m] = "on" THEN "all" ELSE "off"],
               {"killswitch_mode"})

\* Mutant: an old copy of the URL is not removed.
RecentAgain(u, urls) ==
  LET all == <<u>> \o urls
  IN SubSeq(all, 1, IF Len(all) < MaxUrls THEN Len(all) ELSE MaxUrls)

\* Newest first, each once, the oldest falls out.
Recent(u, urls) ==
  LET all == <<u>> \o Only(urls, Range(urls) \ {u})
  IN SubSeq(all, 1, IF Len(all) < MaxUrls THEN Len(all) ELSE MaxUrls)

CustomUrl(m, u) ==
  /\ op[m] = "url"
  /\ MenuSaves(m, [copy[m] EXCEPT !["urls"] = Recent(u, @)], {"urls"})

\* Every provider, tool, source and dns_mode is asked for; a skipped key stays.
Asked == Visible \cup Keyless \cup (Flags \cap {"dns_mode"})

Wizard(m, answer, typed) ==
  /\ op[m] = "wizard"
  /\ MenuSaves(m, [s \in Settings |-> IF s \in Asked THEN answer[s]
                                      ELSE IF s \in DOMAIN typed THEN typed[s] ELSE copy[m][s]],
               Asked \cup DOMAIN typed)

Menu(m) ==
  \/ MenuLoads(m) \/ SetMode(m)
  \/ \E u \in Urls : CustomUrl(m, u)
  \/ \E answer \in [Asked -> {"on", "off"}], set \in SUBSET Keyed :
       \E typed \in [set -> ApiKeys] : Wizard(m, answer, typed)

-----------------------------------------------------------------------------

SettingsInit ==
  /\ file \in FirstFiles
  /\ wpc = "closed" /\ saved = <<>> /\ draft = <<>>
  /\ cursor = 1 /\ top = 1 /\ height \in Heights
  /\ op = [m \in Menus |-> "none"] /\ copy = [m \in Menus |-> <<>>]
  /\ ops = 0 /\ intent = Load

SettingsNext == Window \/ \E m \in Menus : Menu(m)

SettingsSpec == SettingsInit /\ [][SettingsNext]_settingsVars

-----------------------------------------------------------------------------

\* Every copy is a configuration the program can have.
SettingsTypeOK ==
  /\ IsConfig(Load) /\ IsConfig(intent) /\ ops \in 0..MaxOps
  /\ wpc \in {"closed", "draw", "keys", "input", "ask"}
  /\ wpc # "closed" => IsConfig(draft) /\ IsConfig(saved)
  /\ \A m \in Menus : op[m] # "none" => IsConfig(copy[m])

\* Writers that overlap may undo each other's settings, since nothing locks the
\* file, but nothing else does: what a user set last is what the file says,
\* unless a process saved a copy whose setting was no longer the file's.
LostOnlyByStaleSave == Load = intent

\* Whatever the keys, the resizes and the headers: the cursor is on a setting,
\* in the part of the list that is shown; and when there is room above it for
\* the header of its section, the row above the list's top is not that header.
CursorInView ==
  /\ wpc # "closed" => cursor \in DOMAIN Rows /\ Selectable(cursor)
  /\ wpc = "keys" => /\ top >= 1 /\ top <= cursor /\ cursor < top + height
                     /\ cursor - top + 1 < height => top = 1 \/ Selectable(top - 1)

\* The remembered URLs are distinct, however many menus remember them at once.
UrlsDistinct == EachOnce(Load["urls"])
=============================================================================
