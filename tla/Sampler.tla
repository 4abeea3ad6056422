------------------------------- MODULE Sampler -------------------------------
(***************************************************************************)
(* sampler.uniformReplacer (src/utils/json/uint32.go, lines 42-106):       *)
(* sampling count of [0, length) without replacement by running the first *)
(* count swaps of a Fisher-Yates shuffle lazily, the swapped-out cells     *)
(* kept in a defaultMap.  Words are scaled to Width bits: a uint64 is an   *)
(* integer in 0..2^Width-1, an int64 the same bits read as two's          *)
(* complement, so MaxInt64 is 2^(Width-1)-1.  rand.Int63n(n) is any value *)
(* of 0..n-1, and it panics when n <= 0.                                   *)
(***************************************************************************)
EXTENDS Integers, Sequences, FiniteSets, Functions, TLC

CONSTANTS
    Width,      \* bits of a scaled uint64 / int64
    Idle,       \* no Sample call in progress
    Sampling,   \* inside the loop of Sample
    Panicked    \* rand.Int63n was called with n <= 0

Word == 2^Width
MaxInt64 == 2^(Width - 1) - 1
ASSUME Width \in 2..4

\* int64(x) for a uint64 x: the same bits read as signed.
ToInt64(x) == IF x > MaxInt64 THEN x - Word ELSE x

VARIABLES
    length,   \* s.length
    pc,       \* Idle, Sampling or Panicked
    count,    \* the count argument of the running Sample
    i,        \* the loop index
    drawn,    \* the defaultMap: a function on the cells swapped so far
    results,  \* results[1..i]
    out       \* the slice the last Sample returned (<<>> before any)

vars == <<length, pc, count, i, drawn, results, out>>

\* defaultMap.get
Get(m, key, defaultVal) == IF key \in DOMAIN m THEN m[key] ELSE defaultVal

\* One iteration of the loop for a given draw: what is returned, and the
\* map after the swap.
SwapNoDefault(m, idx, draw) ==
    [ret |-> Get(m, draw, draw), map |-> (draw :> idx) @@ m]
Swap(m, idx, draw) ==
    [ret |-> Get(m, draw, draw), map |-> (draw :> Get(m, idx, idx)) @@ m]

\* The draws rand.Int63n(int64(length - idx)) + idx can make (none when it
\* panics).
Draws(len, idx) == {r + idx : r \in 0 .. ToInt64((len - idx) % Word) - 1}

-----------------------------------------------------------------------------
\* Initialize(length): refused when the length does not fit an int64.
InitializeNoGuard(l) == length' = l
Initialize(l) ==
    IF l > MaxInt64 THEN UNCHANGED length ELSE length' = l

InitializeStep(l) ==
    /\ pc = Idle
    /\ Initialize(l)
    /\ UNCHANGED <<pc, count, i, drawn, results, out>>

\* Sample(count): errOutOfRange for a negative count or one above the
\* length; otherwise the loop starts on an empty map.
SampleStart(c) ==
    /\ pc = Idle
    /\ IF c < 0 \/ length < c
          THEN /\ out' = <<>>
               /\ UNCHANGED <<pc, count, i, drawn, results>>
          ELSE /\ pc' = Sampling /\ count' = c /\ i' = 0
               /\ drawn' = <<>> /\ results' = <<>>
               /\ UNCHANGED out
    /\ UNCHANGED length

\* One loop iteration: draw, read the cell, swap cell i into it.
SampleStep ==
    /\ pc = Sampling
    /\ i < count
    /\ IF ToInt64((length - i) % Word) <= 0
          THEN pc' = Panicked /\ UNCHANGED <<i, drawn, results>>
          ELSE \E draw \in Draws(length, i) :
                  LET s == Swap(drawn, i, draw)
                  IN  /\ drawn' = s.map
                      /\ results' = Append(results, s.ret)
                      /\ i' = i + 1
                      /\ UNCHANGED pc
    /\ UNCHANGED <<length, count, out>>

\* The loop is over and the results are returned.
SampleEnd ==
    /\ pc = Sampling
    /\ i = count
    /\ pc' = Idle
    /\ out' = results
    /\ UNCHANGED <<length, count, i, drawn, results>>

Init ==
    /\ length = 0 /\ pc = Idle /\ count = 0 /\ i = 0
    /\ drawn = <<>> /\ results = <<>> /\ out = <<>>

Next ==
    \/ \E l \in 0 .. Word - 1 : InitializeStep(l)
    \/ \E c \in -1 .. MaxInt64 + 1 : SampleStart(c)
    \/ SampleStep
    \/ SampleEnd

Spec == Init /\ [][Next]_vars

-----------------------------------------------------------------------------
\* Every sequence the loop can produce for a length and a count, one per
\* sequence of draws.
RECURSIVE Runs(_, _, _, _)
Runs(l, c, idx, m) ==
    IF idx = c THEN {<<>>}
    ELSE UNION {LET s == Swap(m, idx, d)
                IN  {<<s.ret>> \o r : r \in Runs(l, c, idx + 1, s.map)} :
                d \in Draws(l, idx)}

\* How many sequences of draws there are.
RECURSIVE DrawPaths(_, _, _)
DrawPaths(l, c, idx) ==
    IF idx = c THEN 1 ELSE Cardinality(Draws(l, idx)) * DrawPaths(l, c, idx + 1)

\* The reference: the samples without replacement of c out of [0, l).
KSamples(l, c) == {r \in [1 .. c -> 0 .. l - 1] : IsInjective(r)}

\* The lengths Initialize accepts.
Lengths == 0 .. MaxInt64

TypeOK ==
    /\ length \in Lengths
    /\ pc \in {Idle, Sampling, Panicked}
    /\ count \in 0 .. MaxInt64 /\ i \in 0 .. count
    /\ results \in Seq(Lengths) /\ out \in Seq(Lengths)

\* Initialize's bound keeps the argument of rand.Int63n positive: whatever
\* Initialize and Sample calls are made, Sample never panics.
NoPanic == pc # Panicked

\* The lazy shuffle is uniform: for the length Initialize set and every
\* count Sample accepts, the draws map one to one onto the samples without
\* replacement, so each sample is returned with the same probability when
\* rand.Int63n is uniform.
SampleIsUniform ==
    \A c \in 0 .. length :
        /\ Runs(length, c, 0, <<>>) = KSamples(length, c)
        /\ Cardinality(KSamples(length, c)) = DrawPaths(length, c, 0)

=============================================================================
