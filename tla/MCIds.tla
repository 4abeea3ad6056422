-------------------------------- MODULE MCIds --------------------------------
(* The two containers of package ids (C1) side by side: the Aliaser of      *)
(* MCAliaser (two IDs, four aliases) and a UniqueBag over two vertex IDs    *)
(* with 3-bit BitSets, every set ID below the width, thresholds 1 and 2,    *)
(* and Difference with an empty bag, a bag over one key, and a bag over     *)
(* both keys.  They share no state; each step is a call on one of them.     *)
EXTENDS Naturals, TLC

CONSTANTS a, b, n1, n2, n3, n4, NoID, x, y

VARIABLES dealias, aliases, bag, votes

A == INSTANCE Aliaser WITH IDs <- {a, b}, Names <- {n1, n2, n3, n4}
U == INSTANCE UniqueBag WITH
        IDs <- {x, y}, SetIDs <- 0 .. 2, Width <- 3, Alphas <- {1, 2},
        Diffs <- {[id \in {} |-> {}], x :> {0, 1}, (x :> {2}) @@ (y :> {0, 1, 2})}

Init == A!Init /\ U!Init
Next == \/ A!Next /\ UNCHANGED <<bag, votes>>
        \/ U!Next /\ UNCHANGED <<dealias, aliases>>
Spec == Init /\ [][Next]_<<dealias, aliases, bag, votes>>

\* Aliaser: Lookup and Aliases agree and no alias names two IDs, whatever
\* sequence of Alias and RemoveAliases calls (see Aliaser).
AliasesAgree == A!AliasesAgree
\* UniqueBag: the BitSets hold exactly the votes made and not taken back,
\* and Bag(alpha) marks the IDs with at least alpha voters (see UniqueBag).
VotesAgree == U!VotesAgree
=============================================================================
