-------------------------------- MODULE Terms -------------------------------
(***************************************************************************)
(* What value.h promises its client: an HValue stands for an immutable     *)
(* term.  There is no heap, no sharing and no count here: every operation  *)
(* consumes the terms of the cells it is given and yields new ones, and    *)
(* the term of any other cell never changes.  LosingSpec is weaker in one  *)
(* point: a copy of a native may come out without its arguments.           *)
(***************************************************************************)
EXTENDS Naturals, Sequences, Functions

CONSTANTS Cell, Word, Fn, ClosureArgc, Native, NativeMeta, MaxFields

VARIABLE val  \* val[c]: the term client cell c stands for, or None

Node(kind, fields) == [kind |-> kind, fields |-> fields]
None == Node("none", <<>>)
Atom(w) == Node(w, <<>>)

(* The natives that are called, as against the effects their calls make. *)
Callable == {m \in Native : ~NativeMeta[m].effect}

Empty == {c \in Cell : val[c] = None}
Full == Cell \ Empty
KindOf(c) == val[c].kind

Operands(S) ==
  {as \in UNION {[1..n -> S] : n \in 1..MaxFields} :
     \A i, j \in DOMAIN as : as[i] = as[j] => i = j}
TermsOf(as) == [i \in DOMAIN as |-> val[as[i]]]

(* One step: the cells of gone lose their terms, new[c] is put into c. *)
Update(gone, new) ==
  val' = [c \in Cell |-> IF c \in DOMAIN new THEN new[c]
                         ELSE IF c \in gone THEN None ELSE val[c]]

At(c, t) == [k \in {c} |-> t]

Init == val = [c \in Cell |-> None]

-----------------------------------------------------------------------------

New(c) ==
  \/ \E w \in Word : Update({}, At(c, Atom(w)))
  \/ \E k \in {"string"} \cup Fn \cup Callable :
       Update({}, At(c, Node(k, <<>>)))

Build(c, as) ==
  \E k \in {"cons", "tuple", "binding"} :
    /\ k = "cons" => Len(as) = 2
    /\ k = "binding" => /\ Len(as) = 2
                        /\ \/ KindOf(as[1]) = "binding"
                           \/ /\ KindOf(as[1]) \in Native
                              /\ NativeMeta[KindOf(as[1])].effect
    /\ Update(Range(as), At(c, Node(k, TermsOf(as))))

Copy(t, d) == Update({}, At(d, t))

Forget(c) == Update({c}, <<>>)

Uncons(c, h, t) ==
  /\ KindOf(c) = "cons"
  /\ Update({c}, [k \in {h, t} |-> val[c].fields[IF k = h THEN 1 ELSE 2]])

TupleGet(c, d) ==
  /\ KindOf(c) = "tuple"
  /\ \E i \in DOMAIN val[c].fields : Update({}, At(d, val[c].fields[i]))

(* Applying to too few arguments yields the longer partial application. *)
Argc(k) == IF k \in Fn THEN ClosureArgc[k] ELSE NativeMeta[k].argc

PartialCall(c, t, as, d) ==
  /\ t.kind \in Fn \cup Callable
  /\ Len(t.fields) + Len(as) < Argc(t.kind)
  /\ Update({c} \cup Range(as), At(d, Node(t.kind, t.fields \o TermsOf(as))))

(* The last argument of a closure: all earlier ones come back, in cells of
   their own, as the locals of the call. *)
EnterClosure(c) ==
  /\ KindOf(c) \in Fn
  /\ \E as \in {<<>>} \cup Operands(Empty) :
       /\ Len(as) = Len(val[c].fields)
       /\ \E bs \in Operands(Full \ {c}) :
            Len(as) + Len(bs) = Argc(KindOf(c))
       /\ Update({c}, [k \in Range(as) |->
                         val[c].fields[CHOOSE i \in DOMAIN as : as[i] = k]])

(* The last argument of a native: it yields one of these results. *)
Results(k, fields) ==
  LET call == NativeMeta[k].call
  IN CASE call = "arg" -> {fields[1]}
       [] call = "scalar" -> {Atom(w) : w \in Word}
       [] call = "fails" -> {Node("string", <<>>)}
       [] call \in Native -> {Node(call, [i \in {0} |-> fields[1]])}

NativeCall(c, t, as, d) ==
  /\ t.kind \in Callable
  /\ Len(t.fields) + Len(as) = Argc(t.kind)
  /\ \E r \in Results(t.kind, t.fields \o TermsOf(as)) :
       Update({c} \cup Range(as), At(d, r))

(* What a copy of term t may be.  A call copies the term it applies when    *)
(* other cells share it, so it is applied to the copy.                      *)
Bare(t) == IF t.kind \in Callable THEN Node(t.kind, <<>>) ELSE t
Copies(t, losing) == IF losing THEN {t, Bare(t)} ELSE {t}

Next(losing) ==
  \/ \E c \in Empty : New(c) \/ \E as \in Operands(Full) : Build(c, as)
  \/ \E c \in Full :
       \/ Forget(c) \/ EnterClosure(c)
       \/ \E d \in Empty : TupleGet(c, d)
       \/ \E h, t \in Empty : h # t /\ Uncons(c, h, t)
       \/ \E t \in Copies(val[c], losing) :
            \/ \E d \in Empty : Copy(t, d)
            \/ \E as \in Operands(Full \ {c}), d \in Empty \cup {c} :
                 PartialCall(c, t, as, d) \/ NativeCall(c, t, as, d)

Spec == Init /\ [][Next(FALSE)]_val
LosingSpec == Init /\ [][Next(TRUE)]_val
=============================================================================
