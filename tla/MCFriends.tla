----------------------------- MODULE MCFriends -----------------------------
(* Small instances of Friends for TLC. *)
EXTENDS Friends

CONSTANTS ann, ben, cat

EverybodySearches == Users \X Users
AnnAsksBen == {<<ann, ben>>}
\* Two people ask the third, who may ask one of them back, and one asks herself.
BenAsksBack == {<<ann, ben>>, <<cat, ben>>, <<ben, ann>>, <<cat, cat>>}
TwoAskBen == {<<ann, ben>>, <<cat, ben>>}
=============================================================================
