----------------------------- MODULE MCIdentity -----------------------------
(* Identity for TLC.                                                       *)
EXTENDS Identity, TLC

NobodyIn == [u \in User |-> NULL]
Pair(r)  == [u \in User |-> IF u = 1 THEN "owner" ELSE IF u = 2 THEN r ELSE NULL]

\* Nobody yet, or one organisation with one member or two, the second an owner
\* or not; or two organisations that share the first user.
SomeRosters ==
    LET home == CHOOSE o \in Org : TRUE IN
    {[o \in Org |-> IF o = home THEN Pair(r) ELSE NobodyIn] :
        r \in {"owner", "member", NULL}}
    \cup {[o \in Org |-> NobodyIn],
          [o \in Org |-> IF o = home THEN Pair(NULL) ELSE Pair("owner")]}

AllOps == Ops

IdSymmetry == Permutations(Request) \cup Permutations(Team) \cup Permutations(Key)
=============================================================================
