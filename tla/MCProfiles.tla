----------------------------- MODULE MCProfiles -----------------------------
(* The profiles "nl" and "nl2": the second starts with the first.          *)
EXTENDS Profiles

CONSTANTS nl, nl2

TwoProfiles == <<nl, nl2>>
NamesStartWith == {<<nl2, nl>>}
=============================================================================
