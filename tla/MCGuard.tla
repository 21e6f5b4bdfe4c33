------------------------------ MODULE MCGuard -------------------------------
(* Guard with a few providers of different kinds; each order is a part of  *)
(* ALL_PROVIDERS.                                                          *)
EXTENDS Guard, TLC

CONSTANTS wg, nm, happ, ss

Three == <<wg, ss, happ>>
ThreeKind == (wg :> "parsed") @@ (happ :> "happ") @@ (ss :> "keys")

Mixed == <<wg, nm, happ>>
MixedKind == (wg :> "parsed") @@ (nm :> "unparsed") @@ (happ :> "happ")

HappOne == <<happ>>
HappOneKind == happ :> "happ"

WgOne == <<wg>>
WgOneKind == wg :> "parsed"

\* For properties that promise nothing once a race has happened: muddled is never
\* reset, so there is nothing to look for behind such a state.
StillClear == ~muddled
=============================================================================
