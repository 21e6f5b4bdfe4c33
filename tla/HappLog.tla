------------------------------ MODULE HappLog -------------------------------
(***************************************************************************)
(* Happ's subscription log and what _parse_providers (happmeta.py) makes   *)
(* of it: the ids of Happ's subscriptions and the url of each.  Happ gives *)
(* a new subscription no number in the log until it first updates it, and  *)
(* each new access token is a new url.                                     *)
(***************************************************************************)
EXTENDS Integers, Sequences, FiniteSetsExt, Functions

CONSTANTS
  Feeds,           \* the user's subscriptions, and their ids
  HostOf,          \* host of a feed's urls
  PathOf,          \* path of each of them, as a sequence of characters
  MaxLines,        \* bound: lines of the log
  MaxTokens        \* bound: urls a feed has had

ASSUME HappLogAssumption ==
  /\ MaxLines \in Nat /\ MaxTokens \in Nat
  /\ DOMAIN HostOf = Feeds
  /\ PathOf \in [Feeds -> [1..MaxTokens -> Seq(STRING)]]
  /\ \A f, g \in Feeds : \A s, t \in 1..MaxTokens :
       HostOf[f] = HostOf[g] /\ PathOf[f][s] = PathOf[g][t] => f = g /\ s = t

VARIABLES
  lines,  \* "Subscription being added: url", "Subscription #id starting update from: url"
  token   \* Happ: which of its urls each feed has, 0 for none

logVars == <<lines, token>>

Url(f) == [feed |-> f, token |-> token[f]]
Logs(line) == Len(lines) < MaxLines /\ lines' = Append(lines, line)
NewToken(f) == token[f] < MaxTokens /\ token' = [token EXCEPT ![f] = @ + 1]

HappAdds(f) ==
  /\ NewToken(f)
  /\ Logs([says |-> "added", url |-> [feed |-> f, token |-> token[f] + 1]])

\* Edited in Happ, or moved by its panel.
HappRotates(f) == token[f] > 0 /\ NewToken(f) /\ UNCHANGED lines

HappUpdates(f) ==
  /\ token[f] > 0
  /\ Logs([says |-> "update", url |-> Url(f)])
  /\ UNCHANGED token

HappLogInit == lines = <<>> /\ token = [f \in Feeds |-> 0]
HappLogNext == \E f \in Feeds : HappAdds(f) \/ HappRotates(f) \/ HappUpdates(f)
HappLogSpec == HappLogInit /\ [][HappLogNext]_logVars

-----------------------------------------------------------------------------
(* _parse_providers.                                                       *)

Updates(f) == {i \in DOMAIN lines : lines[i].says = "update" /\ lines[i].url.feed = f}
Numbered   == {f \in Feeds : Updates(f) # {}}
OnHostOf(f) == {g \in Numbered : HostOf[g] = HostOf[f]}

\* _path_prefix_len: how many first characters the paths of two urls share.
Shared(u, v) ==
  LET p == PathOf[u.feed][u.token]
      q == PathOf[v.feed][v.token]
  IN Cardinality({n \in 1..Len(q) : n <= Len(p) /\ SubSeq(p, 1, n) = SubSeq(q, 1, n)})

\* Mutant: a new url goes to the first number of its host.
ClosestIsFirst(real, u) ==
  LET ids == OnHostOf(u.feed)
  IN CHOOSE f \in ids : \A g \in ids : Min(Updates(f)) <= Min(Updates(g))

\* The number whose url is most like u; the first one Happ ever logged if
\* several are.
Closest(real, u) ==
  LET ids == OnHostOf(u.feed)
      best == {f \in ids : \A g \in ids : Shared(real[g], u) <= Shared(real[f], u)}
  IN CHOOSE f \in best : \A g \in best : Min(Updates(f)) <= Min(Updates(g))

\* An "added" line names no number: one of its host gets the url, unless one
\* of them was updated since.  A host without numbers has one url, the last.
MergeAdded(seen, i) ==
  LET u == lines[i].url
      ids == OnHostOf(u.feed)
  IN IF u \in Range(seen.real) THEN seen
     ELSE IF ids = {} THEN [seen EXCEPT !.synth[HostOf[u.feed]] = u]
     ELSE IF i < Max(UNION {Updates(f) : f \in ids}) THEN seen
     ELSE [seen EXCEPT !.real[Closest(seen.real, u)] = u]

OfUpdates == [real |-> [f \in Numbered |-> lines[Max(Updates(f))].url],
              synth |-> [h \in Range(HostOf) |-> {}]]

Providers ==
  LET upTo[i \in 0..Len(lines)] ==
        IF i = 0 THEN OfUpdates
        ELSE IF lines[i].says = "added" THEN MergeAdded(upTo[i - 1], i) ELSE upTo[i - 1]
  IN upTo[Len(lines)]

-----------------------------------------------------------------------------

Lines(f) == {i \in DOMAIN lines : lines[i].url.feed = f}

Logged(f) == {lines[i].url : i \in Lines(f)}

\* The siblings of f are the feeds of its host that are in the log.
Siblings(f) == {g \in Feeds : HostOf[g] = HostOf[f] /\ Lines(g) # {}}

\* No url of one of them starts as much like a new url of another as that one's
\* own urls do.
Separated(f) ==
  \A g \in Siblings(f) : \A h \in Siblings(f) \ {g} :
    \A u \in Logged(g), w \in Logged(h) : \A v \in Logged(g) \ {u} :
      Shared(w, u) < Shared(v, u)

\* The parser gives a new url to the sibling whose url starts most like it, takes
\* the url of one that has no number for that of one that has, and drops a new url
\* of f once a sibling is updated.
Confused(f) ==
  \/ ~Separated(f)
  \/ \E g \in Siblings(f) \ {f} :
       \/ f \notin Numbered \/ g \notin Numbered
       \/ Max(Updates(g)) > Max(Lines(f)) /\ Max(Lines(f)) \notin Updates(f)

\* Happ's newest line about a subscription decides its url: tokens are rotated
\* by new "added" lines and by updates, in any order and among siblings; an old
\* "added" line never brings an old token back, and no sibling's token is taken
\* while the paths of the siblings keep them apart.
UrlIsCurrent ==
  \A f \in Feeds : Lines(f) # {} /\ ~Confused(f) =>
    lines[Max(Lines(f))].url =
      IF f \in Numbered THEN Providers.real[f] ELSE Providers.synth[HostOf[f]]
=============================================================================
