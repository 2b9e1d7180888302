---------------------------- MODULE ArrayMemory -----------------------------
(***************************************************************************)
(* What the symbolically addressed memory promises.  A memory is a value:  *)
(* for each valuation of the inputs an array from addresses to bytes.  A   *)
(* conditional takes copies of it, and stores on one side are not seen on  *)
(* the other; the results are put together by the condition.  A load gives *)
(* what was last stored at the address, and zero if nothing was.           *)
(***************************************************************************)
EXTENDS Integers, Sequences

CONSTANTS
  Valuation,
  AddressModulus,  \* addresses wrap here
  Condition,       \* what a program may branch on
  Vectors,         \* the address vectors a program may use
  Words,           \* the words it may store, least significant byte first
  LoadSizes,       \* and the sizes it may load
  Nothing          \* contents of an address that was never stored to

VARIABLES
  current,  \* the memory of the path being executed
  failed,   \* TRUE if the path being executed ended in an error
  open,     \* for each open conditional: condition, side, the memory it
            \* started from, that of the side that is not executing, and
            \* whether the true side failed
  loaded    \* the bytes of the last load

Address == 0 .. AddressModulus - 1
Empty   == [v \in Valuation |-> [a \in Address |-> Nothing]]

Init ==
  /\ current = Empty
  /\ failed = FALSE
  /\ open = <<>>
  /\ loaded = <<>>

At(address, v, k) == (address[v] + k) % AddressModulus

\* The byte of the word that belongs k bytes after its address.
ByteAt(word, big_endian, k) ==
  IF big_endian THEN word[Len(word) - k] ELSE word[k + 1]

Store(address, word, big_endian) ==
  /\ current' =
       [v \in Valuation |->
          [a \in Address |->
             LET hit == {k \in 0 .. Len(word) - 1 : At(address, v, k) = a}
             IN  IF hit = {} THEN current[v][a]
                 ELSE LET k == CHOOSE k \in hit : \A j \in hit : j <= k
                      IN  ByteAt(word, big_endian, k)[v]]]
  /\ UNCHANGED <<failed, open, loaded>>

Contents(v, a) == IF current[v][a] = Nothing THEN 0 ELSE current[v][a]

Load(address, size, big_endian) ==
  /\ loaded' =
       [i \in 1 .. size |->
          [v \in Valuation |->
             Contents(v, At(address, v, IF big_endian THEN size - i ELSE i - 1))]]
  /\ UNCHANGED <<current, failed, open>>

Fail ==
  /\ failed' = TRUE
  /\ UNCHANGED <<current, open, loaded>>

Fork(c) ==
  /\ ~failed
  /\ open' = Append(open, [c |-> c, side |-> TRUE, orig |-> current,
                           other |-> current, t_failed |-> FALSE])
  /\ UNCHANGED <<current, failed, loaded>>

Top == open[Len(open)]

Switch ==
  /\ open # <<>> /\ Top.side
  /\ current' = Top.other
  /\ failed' = FALSE
  /\ open' = [open EXCEPT ![Len(open)] =
                [@ EXCEPT !.side = FALSE, !.other = current, !.t_failed = failed]]
  /\ UNCHANGED loaded

\* The results are put together; a side that failed is left out, and if both
\* did the memory is what it was.
Join ==
  /\ open # <<>> /\ ~Top.side
  /\ current' = CASE Top.t_failed /\ failed  -> Top.orig
                  [] Top.t_failed /\ ~failed -> current
                  [] ~Top.t_failed /\ failed -> Top.other
                  [] OTHER -> [v \in Valuation |->
                                 IF v \in Top.c THEN Top.other[v] ELSE current[v]]
  /\ failed' = (Top.t_failed /\ failed)
  /\ open' = SubSeq(open, 1, Len(open) - 1)
  /\ UNCHANGED loaded

Next ==
  \/ \E address \in Vectors, big_endian \in BOOLEAN :
       \/ \E word \in Words : Store(address, word, big_endian)
       \/ \E size \in LoadSizes : Load(address, size, big_endian)
  \/ Fail
  \/ \E c \in Condition : Fork(c)
  \/ Switch
  \/ Join

Spec == Init /\ [][Next]_<<current, failed, open, loaded>>
=============================================================================
