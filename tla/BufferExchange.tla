--------------------------- MODULE BufferExchange ---------------------------
(***************************************************************************)
(* What a buffer queue promises its clients, without sections, lists of     *)
(* free buffers, sizes or blocking: every buffer is with one party at a     *)
(* time, it moves on only as its holder allows, and the consumer gets the   *)
(* filled buffers in the order in which they were filled.  Clear, which      *)
(* recalls buffers that were filled, is left out.                            *)
(***************************************************************************)
EXTENDS Naturals, Sequences

CONSTANT Buffers

VARIABLES
    holder,     \* the party each buffer is with
    filled      \* the filled buffers, the oldest first

Holders == {"nobody", "free", "producer", "transit", "filled", "consumer"}

Init ==
    /\ holder = [b \in Buffers |-> "nobody"]
    /\ filled = <<>>

With(party) == {b \in Buffers : holder[b] = party}

Oldest(n) == {filled[i] : i \in 1..n}

(* The buffers of S go to the party, those of D leave the queue.            *)
Move(S, party, D) ==
    holder' = [b \in Buffers |-> CASE b \in S -> party
                                   [] b \in D -> "nobody"
                                   [] OTHER -> holder[b]]

(* Room is made among the free buffers and then the oldest filled ones.     *)
Discard ==
    \E D \in SUBSET With("free"), n \in 0..Len(filled) :
        /\ Move({}, "nobody", D \cup Oldest(n))
        /\ filled' = SubSeq(filled, n + 1, Len(filled))

(* The producer gets a free buffer or a new one, which may replace a free one. *)
Obtain(b) ==
    /\ holder[b] \in {"nobody", "free"}
    /\ \E D \in SUBSET With("free") : Move({b}, "producer", D)
    /\ UNCHANGED filled

Give(b) ==
    /\ holder[b] = "producer"
    /\ Move({b}, "transit", {})
    /\ UNCHANGED filled

(* A buffer of the client's own enters the queue, in the place of others.   *)
Adopt(b) ==
    /\ holder[b] = "nobody"
    /\ \E D \in SUBSET With("free"), n \in 0..Len(filled) :
          /\ Move({b}, "transit", D \cup Oldest(n))
          /\ filled' = SubSeq(filled, n + 1, Len(filled))

Fill(b) ==
    /\ holder[b] = "transit"
    /\ Move({b}, "filled", {})
    /\ filled' = Append(filled, b)

Take ==
    /\ filled # <<>>
    /\ Move({Head(filled)}, "consumer", {})
    /\ filled' = Tail(filled)

(* The consumer has read the buffer, or nothing was put into it.            *)
PutBack(b) ==
    /\ holder[b] \in {"consumer", "transit"}
    /\ Move({b}, "free", {})
    /\ UNCHANGED filled

Withdraw(b) ==
    /\ holder[b] \in {"producer", "transit", "consumer"}
    /\ Move({}, "nobody", {b})
    /\ UNCHANGED filled

Next ==
    \/ Discard \/ Take
    \/ \E b \in Buffers : Obtain(b) \/ Give(b) \/ Adopt(b) \/ Fill(b) \/ PutBack(b) \/ Withdraw(b)

Spec == Init /\ [][Next]_<<holder, filled>>
=============================================================================
