---------------------------- MODULE MCStringCodec ----------------------------
EXTENDS StringCodec

\* Any bytes: also characters that lack their last bytes, or have a byte
\* inside that begins another one, which the encoder does not look at.
AnyBytes == BoundedSeq({0, 1, 2, 4}, 6)

Strings(kinds, n) == {FlattenSeq([i \in DOMAIN s |-> Char(s[i])]) : s \in BoundedSeq(kinds, n)}

\* Whole characters of every kind.
Text == Strings({1, 3, 4, High, Low}, 4) \cup Strings({1, Beyond}, 3)

PeerText == Strings({1, 2, 4}, 3)

Sent(strings, forJava, byPeer) ==
    {[data |-> s, java |-> forJava, peer |-> byPeer] : s \in strings}

SomeCases == Sent(AnyBytes, FALSE, FALSE) \cup Sent(Text, TRUE, FALSE) \cup
             Sent(PeerText, FALSE, TRUE) \cup Sent(PeerText, TRUE, TRUE)
=============================================================================
