------------------------------- MODULE Labels -------------------------------
(***************************************************************************)
(* From the rows of a menu to the one that runs (vpn_manager.py): walker   *)
(* shows lines of text and returns the text of the chosen one, trimmed;    *)
(* _unique_labels makes the lines differ and run_items finds the action.   *)
(***************************************************************************)
EXTENDS Integers, Sequences, FiniteSets, FiniteSetsExt, Functions

CONSTANTS
  Texts,     \* texts that end in no number
  MaxItems   \* bound: rows of a menu

\* A label is [text, padded]: "same (2)" is <<same, 2>>, and padded labels have
\* white space around the text.
Genuine == [text : {<<t>> : t \in Texts} \cup {<<t, 2>> : t \in Texts}, padded : BOOLEAN]

ASSUME LabelsAssumption == MaxItems \in Nat

VARIABLES
  items,   \* the labels the menu was built with
  offered,   \* the lines walker shows
  chosen,  \* the line the user chooses, 0 for none
  ran      \* the row whose action runs

labelVars == <<items, offered, chosen, ran>>

WithNumber(label, n) == [label EXCEPT !.text = Append(@, n)]

\* Mutant: a repeated label gets the count of its repetitions.
CountedLabel(label, unique) ==
  WithNumber(label, 1 + Cardinality({i \in DOMAIN unique : unique[i] = label}))

\* A repeat gets the first number, from 2, that no line above has.
FreeLabel(label, unique) ==
  WithNumber(label, Min({n \in 2..(Len(unique) + 2) : WithNumber(label, n) \notin Range(unique)}))

UniqueLabels(labels) ==
  LET New(label, unique) == IF label \in Range(unique) THEN FreeLabel(label, unique) ELSE label
      upTo[n \in 0..Len(labels)] ==
        IF n = 0 THEN <<>> ELSE Append(upTo[n - 1], New(labels[n], upTo[n - 1]))
  IN upTo[Len(labels)]

\* The first action whose label, trimmed, is what walker returned.
ActionOf(selected) == Min({i \in DOMAIN offered : offered[i].text = selected})

ShowMenu ==
  /\ offered = <<>>
  /\ offered' = UniqueLabels(items)
  /\ UNCHANGED <<items, chosen, ran>>

ChooseLine(i) ==
  /\ chosen = 0 /\ i \in DOMAIN offered
  /\ chosen' = i
  /\ ran' = ActionOf(offered[i].text)
  /\ UNCHANGED <<items, offered>>

\* The action ran; the menu is built again.
Closes ==
  /\ chosen # 0
  /\ offered' = <<>> /\ chosen' = 0 /\ ran' = 0
  /\ UNCHANGED items

LabelsInit ==
  /\ items \in UNION {[1..n -> Genuine] : n \in 1..MaxItems}
  /\ offered = <<>> /\ chosen = 0 /\ ran = 0

LabelsNext == ShowMenu \/ Closes \/ \E i \in DOMAIN offered : ChooseLine(i)

LabelsSpec == LabelsInit /\ [][LabelsNext]_labelVars

-----------------------------------------------------------------------------

\* "no two labels may differ only in surrounding whitespace" (vpn_manager.py:1167)
PaddingTwins == \E i, j \in DOMAIN offered : i # j /\ offered[i].text = offered[j].text
                                           /\ offered[i].padded # offered[j].padded

\* Every row of a menu can be reached, whatever names repeat in it and whatever
\* genuine names look like the numbered ones: choosing a line runs its own
\* action.  Labels that differ in white space only are the exception the code
\* names.
EveryRowReachable == chosen # 0 /\ ~PaddingTwins => ran = chosen
=============================================================================
