----------------------------- MODULE MessageLog -----------------------------
(***************************************************************************)
(* What the way of a message promises, from whoever logs it to the reader  *)
(* of the page.  A message may be lost, delayed or overtaken, and what the *)
(* reader sees may be old.  But only what was said is recorded, a number   *)
(* is given once, in the order of the records, the table is emptied or     *)
(* grows at its end, and the page is a run of at most Limit records.       *)
(***************************************************************************)
EXTENDS Integers, Sequences

CONSTANTS
  Messages,  \* what can be said
  Limit      \* the records the reader asks for

VARIABLES
  said,   \* the messages said so far
  log,    \* the messages recorded, in this order; never shortened
  table,  \* the numbered records that are kept
  page    \* those the reader sees

vars == <<said, log, table, page>>

Numbered(i) == [id |-> i, line |-> log[i]]
Run(from, to) == {Numbered(i) : i \in from..to}

Init == said = {} /\ log = <<>> /\ table = {} /\ page = {}

Say(m) == said' = said \union {m} /\ UNCHANGED <<log, table, page>>
Write(m) ==
  /\ m \in said /\ log' = Append(log, m)
  /\ table' = table \union {[id |-> Len(log) + 1, line |-> m]}
  /\ UNCHANGED <<said, page>>
Clear == table' = {} /\ UNCHANGED <<said, log, page>>
Show(from, to) ==
  /\ to - from < Limit /\ page' = Run(from, to) /\ UNCHANGED <<said, log, table>>

Next ==
  \/ \E m \in Messages : Say(m)
  \/ \E m \in said : Write(m)
  \/ Clear
  \/ \E from \in 1..(Len(log) + 1), to \in 0..Len(log) : Show(from, to)

Spec == Init /\ [][Next]_vars
=============================================================================
