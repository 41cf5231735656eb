---------------------------- MODULE MCRealmSync ----------------------------
(***************************************************************************)
(* Small instances of RealmSync.                                           *)
(***************************************************************************)
EXTENDS RealmSync, TLC

CONSTANTS c1, c2, c3, r1, r2

TwoCalls == {c1, c2}
ThreeCalls == {c1, c2, c3}
TwoRealms == {r1, r2}
OneRealm == {r1}

EveryFamily == AllFamilies
PublicAndDust == {"account", "dust"}
Settled == {"Current", "Stale"}
Working == {"Stale", "Updating"}
Stalled == {"Stale"}
RefreshAndPreflight == {"ManualRefresh", "ActionPreflight"}
Refresh == {"ManualRefresh"}

\* Calls are interchangeable.
CallSymmetry == Permutations(Calls)
=============================================================================
