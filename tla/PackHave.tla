------------------------------ MODULE PackHave ------------------------------
(***************************************************************************)
(* How ops are split over Haves that fit a byte budget (dash-router/src/   *)
(* pack.rs, pack_have).  Bytes are counted in units: one for a frame and   *)
(* for a log, and what the header and the payload of an op take.           *)
(***************************************************************************)
EXTENDS Naturals, Sequences, FiniteSets

CONSTANTS
    Items,          \* ops: log, header bytes and payload bytes (0: no payload)
    HaveInputs,     \* the ops packed, as sequences of items
    HaveLimits      \* byte budgets

ASSUME ItemsAssumption ==
    /\ Items \subseteq [log : Nat, header : Nat, payload : Nat]
    /\ HaveInputs \subseteq Seq(Items)
    /\ HaveLimits \subseteq Nat

\* The bytes of headers and payloads, one by one.
Content(list) == UNION {{k} \X (1..(list[k].header + list[k].payload)) : k \in DOMAIN list}

Bytes(list) ==
    1 + Cardinality({list[k].log : k \in DOMAIN list}) + Cardinality(Content(list))

VARIABLES
    ops,        \* what is to be sent, by log and sequence number
    maxBytes,   \* budget
    rest,       \* ops not looked at yet
    batch,      \* the Have being filled
    haves,      \* the Haves made
    dropped,    \* ops that cannot be sent at all
    packed      \* all is done

haveVars == <<ops, maxBytes, rest, batch, haves, dropped, packed>>

HaveStarts ==
    /\ ops \in HaveInputs /\ rest = ops
    /\ maxBytes \in HaveLimits
    /\ batch = <<>> /\ haves = <<>> /\ dropped = 0 /\ packed = FALSE

Alone(x) == Bytes(<<x>>) <= maxBytes

HeaderOnly(x) == [x EXCEPT !.payload = 0]

\* Mistake: an op that does not fit the batch loses its payload at once.
SentEagerly(x) == IF Alone(HeaderOnly(x)) THEN <<HeaderOnly(x)>> ELSE <<>>

\* What is sent of an op: it, its header, or nothing.
Sent(x) ==
    IF Alone(x) THEN <<x>> ELSE IF Alone(HeaderOnly(x)) THEN <<HeaderOnly(x)>> ELSE <<>>

WithBatch(done, open) == IF open = <<>> THEN done ELSE Append(done, open)

TakeOp ==
    /\ ~packed /\ rest # <<>>
    /\ LET x == Head(rest) IN
          IF Bytes(Append(batch, x)) <= maxBytes
          THEN batch' = Append(batch, x) /\ UNCHANGED <<haves, dropped>>
          ELSE /\ haves' = WithBatch(haves, batch)
               /\ batch' = Sent(x)
               /\ dropped' = IF Sent(x) = <<>> THEN dropped + 1 ELSE dropped
    /\ rest' = Tail(rest)
    /\ UNCHANGED <<ops, maxBytes, packed>>

HaveEnds ==
    /\ ~packed /\ rest = <<>>
    /\ haves' = WithBatch(haves, batch)
    /\ batch' = <<>>
    /\ packed' = TRUE
    /\ UNCHANGED <<ops, maxBytes, rest, dropped>>

HaveNext == TakeOp \/ HaveEnds

HaveSpec == HaveStarts /\ [][HaveNext]_haveVars

-----------------------------------------------------------------------------
\* Properties.

\* What fits on its own, or with its header alone.
Sendable == {k \in DOMAIN ops : Alone(HeaderOnly(ops[k]))}

\* Where an op may be in some Haves: the Have, and the place in it.
Slots(list) == UNION {{h} \X DOMAIN list[h] : h \in DOMAIN list}

Before(s, t) == s[1] < t[1] \/ (s[1] = t[1] /\ s[2] < t[2])

\* place puts the ops with these indices into the Haves of a list, which hold
\* nothing else: in order, and whole if they fit.
Places(place, indices, list) ==
    /\ {place[k] : k \in indices} = Slots(list)
    /\ \A j, k \in indices : j < k => Before(place[j], place[k])
    /\ \A k \in indices :
          list[place[k][1]][place[k][2]] = IF Alone(ops[k]) THEN ops[k] ELSE HeaderOnly(ops[k])

\* Every op that fits a Have of its own is sent, once, in order and whole;
\* one whose payload does not fit is sent without it, only the others are
\* dropped, and they are counted; every Have fits the budget.
HavesWhole ==
    /\ \A k \in DOMAIN haves : haves[k] # <<>> /\ Bytes(haves[k]) <= maxBytes
    /\ packed =>
          /\ \E place \in [Sendable -> Slots(haves)] : Places(place, Sendable, haves)
          /\ dropped = Cardinality(DOMAIN ops \ Sendable)

=============================================================================
