-------------------------------- MODULE Sio --------------------------------
(***************************************************************************)
(* The signal-safe output of csapp.c: sio_putl turns a long into text in a *)
(* buffer of its own (sio_ltoa, digit by digit from the right, then        *)
(* sio_reverse) and writes the text.  Main calls it, a signal handler may  *)
(* interrupt it anywhere and calls it too, and main goes on.               *)
(*                                                                         *)
(* Characters are their codes; a long has W bits; arrays count from 0.     *)
(***************************************************************************)
EXTENDS Integers, Sequences

CONSTANTS W, Values,     \* bits of a long (64); the numbers that are put
          Size           \* of the buffer (128)

TwoTo[k \in 0..W] == IF k = 0 THEN 1 ELSE 2 * TwoTo[k - 1]
LONG_MIN == -TwoTo[W - 1]

(* A digit tells at least one bit; the sign and the NUL need room, too.    *)
SioAssumption ==
    /\ W \in Nat \ {0} /\ Values \subseteq LONG_MIN..(-LONG_MIN - 1)
    /\ Size \in Nat /\ Size >= W + 2

VARIABLES pc, asked, v, neg, i, j,   \* per activation of sio_putl
          s,                         \* per activation: its buffer
          written                    \* per activation: the text it wrote

vars == <<pc, asked, v, neg, i, j, s, written>>
frame == <<asked, neg, written>>

Activations == {"main", "handler"}
NUL == 0
Minus == 45
Zero == 48       \* also what an uninitialized buffer may hold

Init ==
    /\ pc = [a \in Activations |-> "idle"]
    /\ asked = [a \in Activations |-> 0] /\ v = asked /\ i = asked /\ j = asked
    /\ neg = [a \in Activations |-> FALSE]
    /\ s = [a \in Activations |-> [k \in 0..(Size - 1) |-> Zero]]
    /\ written = [a \in Activations |-> <<>>]

(* A faulty variant of the next definition, for the properties to catch.   *)
Buffer_static(a) == "main"

(* char s[128] of sio_putl is on the stack.                                *)
Buffer(a) == a

Text(a) == s[Buffer(a)]
Put(a, k, c) == s' = [s EXCEPT ![Buffer(a)][k] = c]

(* The handler runs to its end before main goes on.                        *)
Runs(a) == a = "main" => pc["handler"] \in {"idle", "done"}
At(a, where) == pc[a] = where /\ Runs(a)
GoTo(a, where) == pc' = [pc EXCEPT ![a] = where]

(* sio_putl, and the entry of sio_ltoa.  -LONG_MIN overflows; the machine's*)
(* negation leaves it as it is.                                            *)
Call(a, x) ==
    /\ At(a, "idle")
    /\ asked' = [asked EXCEPT ![a] = x]
    /\ neg' = [neg EXCEPT ![a] = x < 0]
    /\ v' = [v EXCEPT ![a] = IF x < 0 /\ x # LONG_MIN THEN -x ELSE x]
    /\ i' = [i EXCEPT ![a] = 0]
    /\ GoTo(a, "digits")
    /\ UNCHANGED <<j, s, written>>

(* Division of C rounds towards 0.                                         *)
Quotient(x, b)  == IF x >= 0 THEN x \div b ELSE -((-x) \div b)
Remainder(x, b) == x - b * Quotient(x, b)

Character(c) == IF c < 10 THEN c + Zero ELSE c - 10 + 97

(* (v /= b) > 0                                                            *)
More(x, b) == Quotient(x, b) > 0

Digit(a) ==
    /\ At(a, "digits")
    /\ Put(a, i[a], Character(Remainder(v[a], 10)))
    /\ i' = [i EXCEPT ![a] = @ + 1]
    /\ v' = [v EXCEPT ![a] = Quotient(@, 10)]
    /\ GoTo(a, IF More(v[a], 10) THEN "digits" ELSE "sign")
    /\ UNCHANGED <<frame, j>>

Sign(a) ==
    /\ At(a, "sign")
    /\ IF neg[a] THEN Put(a, i[a], Minus) /\ i' = [i EXCEPT ![a] = @ + 1]
                 ELSE UNCHANGED <<s, i>>
    /\ GoTo(a, "end")
    /\ UNCHANGED <<frame, v, j>>

End(a) ==
    /\ At(a, "end")
    /\ Put(a, i[a], NUL)
    /\ GoTo(a, "reverse")
    /\ UNCHANGED <<frame, v, i, j>>

(* sio_strlen                                                              *)
Length(t) == CHOOSE n \in 0..Size : /\ n < Size => t[n] = NUL
                                    /\ \A k \in 0..(n - 1) : t[k] # NUL

ReverseStarts(a) ==
    /\ At(a, "reverse")
    /\ i' = [i EXCEPT ![a] = 0]
    /\ j' = [j EXCEPT ![a] = Length(Text(a)) - 1]
    /\ GoTo(a, "swap")
    /\ UNCHANGED <<frame, v, s>>

Swap(a) ==
    /\ At(a, "swap") /\ i[a] < j[a]
    /\ s' = [s EXCEPT ![Buffer(a)][i[a]] = Text(a)[j[a]], ![Buffer(a)][j[a]] = Text(a)[i[a]]]
    /\ i' = [i EXCEPT ![a] = @ + 1] /\ j' = [j EXCEPT ![a] = @ - 1]
    /\ UNCHANGED <<frame, v, pc>>

(* sio_puts: one write                                                     *)
Write(a) ==
    /\ At(a, "swap") /\ i[a] >= j[a]
    /\ written' = [written EXCEPT ![a] = [k \in 1..Length(Text(a)) |-> Text(a)[k - 1]]]
    /\ GoTo(a, "done")
    /\ UNCHANGED <<asked, v, neg, i, j, s>>

Step(a) ==
    \/ \E x \in Values : Call(a, x)
    \/ Digit(a) \/ Sign(a) \/ End(a) \/ ReverseStarts(a) \/ Swap(a) \/ Write(a)

Next == \E a \in Activations : Step(a)

Spec == Init /\ [][Next]_vars

-----------------------------------------------------------------------------
(* What a decimal text denotes.                                            *)
Unsigned(t) ==
    LET sum[k \in 0..Len(t)] == IF k = 0 THEN 0 ELSE 10 * sum[k - 1] + (t[k] - Zero)
    IN  sum[Len(t)]
IsNumber(t) == Len(t) > 0 /\ \A k \in 1..Len(t) : t[k] \in 48..57
Denotes(t, x) ==
    IF x < 0 THEN Len(t) > 0 /\ t[1] = Minus /\ IsNumber(Tail(t)) /\ Unsigned(Tail(t)) = -x
             ELSE IsNumber(t) /\ Unsigned(t) = x

(* Whatever main and its handler put, and wherever the handler comes in,   *)
(* each writes the decimal text of its own number, without leading zeros.  *)
PutsItsNumber ==
    \A a \in Activations : pc[a] = "done" /\ asked[a] # LONG_MIN =>
        /\ Denotes(written[a], asked[a])
        /\ LET digits == IF asked[a] < 0 THEN Tail(written[a]) ELSE written[a]
           IN  digits[1] = Zero => asked[a] = 0

=============================================================================
