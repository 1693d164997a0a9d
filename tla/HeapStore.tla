----------------------------- MODULE HeapStore -----------------------------
(***************************************************************************)
(* What malloc, free and realloc promise: the memory a program holds lies  *)
(* in the heap, no two pieces of it share a byte, and a call changes no    *)
(* piece but the one it is about.                                          *)
(***************************************************************************)
EXTENDS Integers

CONSTANTS HeapSize, Sizes

VARIABLE live   \* the length of the piece at each pointer the program holds

Apart(p, n, q, m) == p + n =< q \/ q + m =< p

(* A piece of n units may be at p, beside those of f. *)
FitsBeside(p, n, f) ==
  /\ p + n =< HeapSize
  /\ p \notin DOMAIN f
  /\ \A q \in DOMAIN f : Apart(p, n, q, f[q])

With(f, p, n) == [q \in DOMAIN f \cup {p} |-> IF q = p THEN n ELSE f[q]]
Without(f, p) == [q \in DOMAIN f \ {p} |-> f[q]]

Init == live = [p \in {} |-> 0]

Give == \E n \in Sizes, p \in 0 .. HeapSize :
          FitsBeside(p, n, live) /\ live' = With(live, p, n)

TakeBack == \E p \in DOMAIN live : live' = Without(live, p)

(* realloc: the piece at p becomes one of n units at q, p itself or not. *)
Resize == \E p \in DOMAIN live, n \in Sizes, q \in 0 .. HeapSize :
            /\ FitsBeside(q, n, Without(live, p))
            /\ live' = With(Without(live, p), q, n)

(* A call that changes what the program holds. *)
Next == live' # live /\ (Give \/ TakeBack \/ Resize)

Spec == Init /\ [][Next]_live

=============================================================================
