------------------------- MODULE MCFeedSubscriptions -------------------------
(* Two symbols, of two instruments or of one; the first may have a prefix    *)
EXTENDS FeedSubscriptions, TLC
CONSTANTS s1, s2, bare1, k1, k2, c1, c2, chart, bot
MCSymbol == {s1, s2}
MCName == {s1, s2, bare1}
MCKey == {k1, k2}
Prefixed == s1 :> bare1 @@ s2 :> s2
Unprefixed == s1 :> s1 @@ s2 :> s2
Apart == s1 :> k1 @@ bare1 :> k1 @@ s2 :> k2
Aliases == s1 :> k1 @@ bare1 :> k1 @@ s2 :> k1
Symmetry == Permutations({c1, c2}) \cup Permutations({chart, bot})

\* No run's: a prefix that resolve_instrument_key does not take off, as UPSTOX:
\* and DHAN:.  FeedIsWanted is false then: only the bare name has the key, and
\* nobody unsubscribes it.
OnlyBare == s1 :> NoKey @@ bare1 :> k1 @@ s2 :> k2
=============================================================================
