---------------------------- MODULE ConcreteRuns ----------------------------
(***************************************************************************)
(* What symbolic execution promises: one run of the program per valuation  *)
(* of the inputs, each with registers and a heap offset of its own.  The   *)
(* runs that are on the current path execute an instruction together, the  *)
(* others rest, and a conditional does not change what any run computed.   *)
(*                                                                         *)
(* A byte that a run never wrote has no promised value: the library warns  *)
(* of such a read and goes on.  A run may be given up, when the SAT solver *)
(* could not decide whether its path is feasible; nothing is promised of   *)
(* it from then on.                                                        *)
(***************************************************************************)
EXTENDS Integers, Sequences

CONSTANTS
  Valuation,   \* one run for each
  Offset,      \* the register bytes
  HeapStart,   \* the heap offset of every run at the start
  ByteModulus, \* where a cell and the heap offset wrap
  Esp, Eax,    \* the offsets of the stack pointer and the return register
  Condition,   \* the conditions a program may branch on
  Stores,      \* the store instructions of a program
  Moves,       \* its instructions that copy registers
  MallocSizes, \* the sizes a program may ask for, by run
  Pops,        \* what a library function may add to the stack pointer
  StoredByte(_, _, _),  \* the byte an instruction stores, by offset and run
  CopiedFrom(_, _),     \* where an instruction copies an offset's byte from
  Unwritten,   \* the contents of a byte that the run never wrote
  GivenUp      \* the state of a run that was given up

VARIABLES
  run,   \* the registers and heap offset of each run
  open   \* the conditionals the program is inside of, the innermost last:
         \* the runs on the side being executed, those still to come

Init ==
  /\ open = <<>>
  /\ run = [v \in Valuation |->
              [cell |-> [i \in Offset |-> Unwritten], heap |-> HeapStart]]

Going  == {v \in Valuation : run[v] # GivenUp}
OnPath(k) == {v \in Valuation : \A j \in 1 .. k : v \in open[j].now}
Active == Going \cap OnPath(Len(open))

Store(st) ==
  /\ run' = [v \in Valuation |->
               IF v \in Active
                 THEN [run[v] EXCEPT !.cell =
                         [i \in Offset |->
                            LET b == StoredByte(st, i, v)
                            IN  IF b = Unwritten THEN run[v].cell[i] ELSE b]]
                 ELSE run[v]]
  /\ UNCHANGED open

\* A byte copied from one that was never written has a value from then on,
\* which is not promised.
Copied(v, mv, i) ==
  LET s == CopiedFrom(mv, i)
      b == IF s = Unwritten THEN run[v].cell[i] ELSE run[v].cell[s]
  IN  IF b = Unwritten
        THEN run'[v].cell[i] = Unwritten <=> s = Unwritten
        ELSE run'[v].cell[i] = b

Move(mv) ==
  /\ \A v \in Valuation :
       IF v \in Active
         THEN /\ run'[v] # GivenUp
              /\ run'[v].heap = run[v].heap
              /\ \A i \in Offset : Copied(v, mv, i)
         ELSE run'[v] = run[v]
  /\ UNCHANGED open

\* A library function moves the stack pointer by n, which must have a value
\* for the result to have a promised one.
PopReturn(v, n) ==
  /\ run'[v] # GivenUp
  /\ run'[v].cell[Esp] # Unwritten
  /\ run[v].cell[Esp] # Unwritten
       => run'[v].cell[Esp] = (run[v].cell[Esp] + n) % ByteModulus

SameCells(v, S) == \A i \in S : run'[v].cell[i] = run[v].cell[i]

Malloc(size, n) ==
  /\ \A v \in Valuation :
       IF v \in Active
         THEN /\ PopReturn(v, n)
              /\ run'[v].cell[Eax] = run[v].heap
              /\ run'[v].heap = (run[v].heap + size[v]) % ByteModulus
              /\ SameCells(v, Offset \ {Esp, Eax})
         ELSE run'[v] = run[v]
  /\ UNCHANGED open

LibraryCall(n) ==
  /\ \A v \in Valuation :
       IF v \in Active
         THEN /\ PopReturn(v, n)
              /\ run'[v].heap = run[v].heap
              /\ SameCells(v, Offset \ {Esp})
         ELSE run'[v] = run[v]
  /\ UNCHANGED open

\* The program reaches a conditional and the runs in now go first.
Enter ==
  /\ \E c \in Condition :
       \/ open' = Append(open, [now |-> c, todo |-> Valuation \ c])
       \/ open' = Append(open, [now |-> Valuation \ c, todo |-> c])
  /\ UNCHANGED run

\* The first side is done; the runs that wait take the other one.
Switch ==
  /\ open # <<>>
  /\ open' = [open EXCEPT ![Len(open)] = [now |-> @.todo, todo |-> {}]]
  /\ UNCHANGED run

\* The conditional is over: no run on its path may be left waiting.
Leave ==
  /\ open # <<>>
  /\ Going \cap OnPath(Len(open) - 1) \cap open[Len(open)].todo = {}
  /\ open' = SubSeq(open, 1, Len(open) - 1)
  /\ \A v \in Valuation :
       /\ run[v] = GivenUp <=> run'[v] = GivenUp
       /\ run[v] # GivenUp =>
            /\ run'[v].heap = run[v].heap
            /\ \A i \in Offset : run[v].cell[i] # Unwritten
                                   => run'[v].cell[i] = run[v].cell[i]

\* The runs on the current path are given up.
GiveUp ==
  /\ run' = [v \in Valuation |->
               IF v \in OnPath(Len(open)) THEN GivenUp ELSE run[v]]
  /\ UNCHANGED open

Next ==
  \/ \E st \in Stores : Store(st)
  \/ \E mv \in Moves : Move(mv)
  \/ \E n \in Pops :
       \/ \E size \in MallocSizes : Malloc(size, n)
       \/ LibraryCall(n)
  \/ Enter
  \/ Switch
  \/ Leave
  \/ GiveUp

Spec == Init /\ [][Next]_<<run, open>>
=============================================================================
