------------------------------ MODULE UniqueBag ------------------------------
(***************************************************************************)
(* ids.UniqueBag (src/ids/unique_bag.go, lines 15-91): a map from an ID to *)
(* a BitSet, the set of "set IDs" (voters, in a poll) that hold the ID.    *)
(* Bag(alpha) turns it into an ids.Bag that counts, per ID, how many set   *)
(* IDs hold it and marks the IDs whose count reaches alpha.                *)
(*                                                                         *)
(* BitSet (a uint64; not under src/) is a set of bit positions below       *)
(* Width, scaled from 64: Add(i) ORs in 1 << i, which is 0 in Go for i at  *)
(* or above the width.  A UniqueBag has no lock; each method is one step. *)
(* votes is not program state: it records what the calls so far mean,     *)
(* (set ID, ID) pairs, as the reference the bag is checked against.        *)
(***************************************************************************)
EXTENDS Naturals, FiniteSets, Functions, TLC

CONSTANTS
    IDs,      \* vertex IDs
    SetIDs,   \* the setID arguments of Add
    Width,    \* bits in a BitSet
    Alphas,   \* thresholds given to Bag
    Diffs     \* UniqueBags given to Difference: functions from some IDs to BitSets

Bits == 0 .. Width - 1
BitSets == SUBSET Bits

VARIABLES
    bag,      \* the map: a function from the IDs it holds to their BitSets
    votes     \* the meaning of the calls so far: a set of <<setID, ID>>

vars == <<bag, votes>>

\* BitSet.Add(i): *bs |= 1 << i.
BitAdd(bs, i) == IF i < Width THEN bs \cup {i} ELSE bs

\* (*b)[key]: the BitSet of the key, the zero BitSet when it is absent.
GetSet(id) == IF id \in DOMAIN bag THEN bag[id] ELSE {}

\* List: the keys of the map.
List == DOMAIN bag

\* Bag(alpha): AddCount(id, bs.Len()) for every key, where ids.Bag's
\* AddCount ignores a count of 0; the result as its counts and the IDs
\* that met the threshold.
Bag(alpha) ==
    LET counted == {id \in DOMAIN bag : Cardinality(bag[id]) > 0}
    IN  [counts |-> [id \in counted |-> Cardinality(bag[id])],
         met    |-> {id \in counted : Cardinality(bag[id]) >= alpha}]

\* The pairs a UniqueBag's BitSets hold.
Pairs(b) == {<<s, id>> \in Bits \X DOMAIN b : s \in b[id]}

-----------------------------------------------------------------------------
\* The zero UniqueBag: a nil map, which reads as empty.
Init ==
    /\ bag = [id \in {} |-> {}]
    /\ votes = {}

\* Bug variant of UnionSet: the previous set is not kept.
UnionSetReplace(b, id, set) == (id :> set) @@ b

\* UnionSet(id, set) on map b: init, then the key's previous set (zero
\* when absent) unioned with set and stored.
UnionSet(b, id, set) ==
    (id :> ((IF id \in DOMAIN b THEN b[id] ELSE {}) \cup set)) @@ b

\* Add(setID, idSet...): a BitSet holding setID, unioned into each ID's.
Add(s, I) ==
    /\ bag' = LET bs == BitAdd({}, s)
                  RECURSIVE Each(_, _)
                  Each(b, J) == IF J = {} THEN b
                                ELSE LET id == CHOOSE id \in J : TRUE
                                     IN  Each(UnionSet(b, id, bs), J \ {id})
              IN  Each(bag, I)
    /\ votes' = votes \cup ({s} \X I)

\* UnionSet(id, set).
Union(id, set) ==
    /\ bag' = UnionSet(bag, id, set)
    /\ votes' = votes \cup (set \X {id})

\* DifferenceSet(id, set): the key's previous set minus set, stored, so an
\* absent key is added with the zero set.
DifferenceSet(id, set) ==
    /\ bag' = (id :> (GetSet(id) \ set)) @@ bag
    /\ votes' = votes \ (set \X {id})

\* Difference(diff): each key of the map loses the bits diff holds for it.
Difference(diff) ==
    /\ bag' = [id \in DOMAIN bag |->
                 IF id \in DOMAIN diff THEN bag[id] \ diff[id] ELSE bag[id]]
    /\ votes' = votes \ Pairs(diff)

\* RemoveSet(id): delete(*b, id.Key()).
RemoveSet(id) ==
    /\ bag' = Restrict(bag, DOMAIN bag \ {id})
    /\ votes' = {p \in votes : p[2] # id}

Next ==
    \/ \E s \in SetIDs, I \in SUBSET IDs : Add(s, I)
    \/ \E id \in IDs, set \in BitSets :
          Union(id, set) \/ DifferenceSet(id, set)
    \/ \E d \in Diffs : Difference(d)
    \/ \E id \in IDs : RemoveSet(id)

Spec == Init /\ [][Next]_vars

-----------------------------------------------------------------------------
\* The set IDs that voted for id, as the calls so far say.
Voters(id) == {s \in SetIDs \cup Bits : <<s, id>> \in votes}

\* After any sequence of Add, UnionSet, DifferenceSet, Difference and
\* RemoveSet, the BitSets hold exactly the votes the calls made and did not
\* take back, and Bag(alpha), which a poll uses to find the IDs with alpha
\* votes, marks exactly the IDs that at least alpha distinct set IDs voted
\* for, with each ID counted once per voter.
VotesAgree ==
    /\ Pairs(bag) = votes
    /\ \A a \in Alphas :
          /\ Bag(a).met = {id \in IDs : Cardinality(Voters(id)) >= a}
          /\ \A id \in DOMAIN Bag(a).counts : Bag(a).counts[id] = Cardinality(Voters(id))

=============================================================================
