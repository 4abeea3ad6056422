------------------------------- MODULE Aliaser -------------------------------
(***************************************************************************)
(* ids.Aliaser (src/version/version_test.go, lines 119-202): two maps kept *)
(* in step under one RWMutex, dealias from an alias to its ID and aliases  *)
(* from an ID to the list of its aliases in the order they were given.     *)
(* Every method holds the lock for its whole body, so each one is a single *)
(* atomic step; the readers change nothing and are operators.              *)
(***************************************************************************)
EXTENDS Sequences, SequencesExt

CONSTANTS
    IDs,      \* chain and VM IDs
    Names,    \* alias strings
    NoID      \* the zero ID{} returned by a failed Lookup

VARIABLES
    dealias,  \* dealias[n]: the ID alias n names, or NoID when n is unused
    aliases   \* aliases[id]: the aliases of id, oldest first (<<>> when none)

vars == <<dealias, aliases>>

\* Lookup(alias): the ID, or NoID for the error return.
Lookup(n) == dealias[n]

\* Aliases(id): the list as stored.
Aliases(id) == aliases[id]

\* PrimaryAlias(id): the first alias, or "" with an error when there is none.
PrimaryAlias(id) == IF aliases[id] = <<>> THEN "" ELSE Head(aliases[id])

\* Initialize: both maps empty.
Init ==
    /\ dealias = [n \in Names |-> NoID]
    /\ aliases = [id \in IDs |-> <<>>]

\* Bug variant of Alias: the alias is taken without checking that it is free.
AliasNoCheck(id, n) ==
    /\ dealias' = [dealias EXCEPT ![n] = id]
    /\ aliases' = [aliases EXCEPT ![id] = Append(@, n)]

\* Alias(id, alias): an error, and no change, when the alias is taken;
\* otherwise both maps are updated and the alias is appended.
Alias(id, n) ==
    /\ dealias[n] = NoID
    /\ dealias' = [dealias EXCEPT ![n] = id]
    /\ aliases' = [aliases EXCEPT ![id] = Append(@, n)]

\* RemoveAliases(id): the ID's entry is deleted, then each of its aliases.
RemoveAliases(id) ==
    /\ aliases' = [aliases EXCEPT ![id] = <<>>]
    /\ dealias' = [n \in Names |-> IF n \in ToSet(aliases[id]) THEN NoID
                                                               ELSE dealias[n]]

Next ==
    \E id \in IDs :
        \/ \E n \in Names : Alias(id, n)
        \/ RemoveAliases(id)

Spec == Init /\ [][Next]_vars

-----------------------------------------------------------------------------
\* "An ID can have arbitrarily many aliases; two IDs may not have the same
\* alias": after any sequence of Alias and RemoveAliases calls, Lookup of
\* an alias gives exactly the ID whose Aliases list holds it, and no list
\* holds an alias twice.
AliasesAgree ==
    /\ \A id \in IDs, n \in Names : Lookup(n) = id <=> n \in ToSet(Aliases(id))
    /\ \A id \in IDs : IsInjective(Aliases(id))

=============================================================================
