----------------------------- MODULE Calculator -----------------------------
(***************************************************************************)
(* The calculator (apps/calc_app.c): a display that is typed into, one     *)
(* pending operator, and the operation that a further "=" repeats.  Each   *)
(* key or button is one step.                                              *)
(*                                                                         *)
(* Fractions are left out: there is no decimal point, and no key is        *)
(* pressed that gives one.                                                 *)
(***************************************************************************)
EXTENDS Integers

CONSTANTS
    Digits,         \* the digits typed
    Largest,        \* the largest number of CALC_DISPLAY_MAX_CHARS digits
    MaxResult,      \* the largest result that calc_double_to_str takes
    MaxKeys         \* bound on the keys pressed

VARIABLES
    shown,              \* display, as its sign and its digits
    error,              \* what is displayed is an error
    input,              \* input_mode
    a, pending,         \* operand_a, pending_op (and operator_active)
    last, lastOperand,  \* last_op, last_operand
    keys,               \* keys so far
    acc, op, fresh,     \* history: the entries so far, from left to right
    percent,            \* history: the last key was %
    expected,           \* history: what the last key, "=", should have given
    odd                 \* history: + or - or % was used in a way that is not kept

ghosts == <<acc, op, fresh, percent, expected, odd>>
vars == <<shown, error, input, a, pending, last, lastOperand, keys, ghosts>>

NoOp == "none"
Ops == {"+", "-", "*", "/"}
NoValue == Largest * Largest + 1
Undefined == NoValue + 1
Zero == [neg |-> FALSE, mag |-> 0]

Abs(n) == IF n < 0 THEN -n ELSE n
Value(d) == IF d.neg THEN -d.mag ELSE d.mag

\* The largest number that fits the display, which has a character less for
\* the digits when there is a sign.
Room(neg) == IF neg THEN Largest \div 10 ELSE Largest

\* calc_apply_operation: Undefined for a division by zero.
Apply(x, o, y) ==
    CASE o = "+" -> x + y
      [] o = "-" -> x - y
      [] o = "*" -> x * y
      [] o = "/" -> IF y = 0 THEN Undefined
                    ELSE IF (x < 0) = (y < 0) THEN Abs(x) \div Abs(y) ELSE -(Abs(x) \div Abs(y))

Whole(x, o, y) == o = "/" /\ y # 0 => Abs(x) % Abs(y) = 0

\* calc_double_to_str
Fits(v) == Abs(v) <= MaxResult /\ Abs(v) <= Room(v < 0)
Number(v) == [neg |-> v < 0, mag |-> Abs(v)]

\* calc_all_clear, calc_on_init
Init ==
    /\ shown = Zero /\ error = FALSE /\ input = TRUE
    /\ a = 0 /\ pending = NoOp /\ last = NoOp /\ lastOperand = 0
    /\ keys = 0
    /\ acc = 0 /\ op = NoOp /\ fresh = FALSE /\ percent = FALSE /\ expected = NoValue /\ odd = FALSE

-----------------------------------------------------------------------------
Key == keys < MaxKeys /\ keys' = keys + 1

\* A key that makes an entry, as the entries go.
Entered(isPercent) ==
    /\ op' = IF error THEN NoOp ELSE op
    /\ fresh' = TRUE /\ percent' = isPercent /\ expected' = NoValue
    /\ UNCHANGED acc

\* calc_set_display_from_double, calc_set_error_text: a result is shown, or an
\* error, which gives up the pending operator.
Show(v, next) ==
    IF Fits(v)
    THEN shown' = Number(v) /\ error' = FALSE /\ input' = FALSE /\ pending' = next
    ELSE shown' = Zero /\ error' = TRUE /\ input' = FALSE /\ pending' = NoOp

\* What an error leaves of the rest when a number is begun: calc_all_clear.
Forgotten(typing) ==
    /\ a' = 0 /\ pending' = NoOp /\ last' = NoOp /\ lastOperand' = 0
    /\ error' = FALSE /\ input' = typing

Cleared == Forgotten(TRUE)

\* calc_prepare_for_numeric_input, calc_input_digit: a number is begun after a
\* result or an operator; after a result what "=" would repeat is forgotten.
Digit ==
    /\ Key
    /\ \E k \in Digits :
           LET d == IF error \/ ~input THEN Zero ELSE shown
           IN  shown' = IF d.mag = 0 THEN [d EXCEPT !.mag = k]
                        ELSE IF d.mag > Room(d.neg) \div 10 THEN d
                        ELSE [d EXCEPT !.mag = 10 * d.mag + k]
    /\ IF error THEN Cleared
       ELSE /\ input' = TRUE
            /\ IF ~input /\ pending = NoOp THEN last' = NoOp /\ lastOperand' = 0
               ELSE UNCHANGED <<last, lastOperand>>
            /\ UNCHANGED <<a, pending, error>>
    /\ Entered(FALSE)
    /\ UNCHANGED odd

\* calc_toggle_sign: the number shown is also taken for the first operand.
ToggleSign ==
    /\ Key
    /\ LET d == IF error THEN Zero ELSE shown
           full == ~d.neg /\ d.mag > Room(TRUE)
       IN  /\ shown' = IF full THEN d ELSE [d EXCEPT !.neg = ~d.neg]
           /\ IF error THEN Cleared
              ELSE /\ a' = IF full THEN a ELSE Value(shown')
                   /\ input' = (input \/ ~full)
                   /\ UNCHANGED <<pending, last, lastOperand, error>>
           /\ Entered(FALSE)
           /\ odd' = (odd \/ op # NoOp)

\* calc_backspace
Backspace ==
    /\ Key
    /\ IF error THEN shown' = Zero /\ Cleared
       ELSE /\ shown' = IF shown.mag < 10 THEN Zero ELSE [shown EXCEPT !.mag = @ \div 10]
            /\ input' = TRUE
            /\ UNCHANGED <<a, pending, last, lastOperand, error>>
    /\ Entered(FALSE)
    /\ UNCHANGED odd

\* calc_percentage: of the first operand, or of one; of the 0 that is left after
\* an error.
Percent ==
    /\ Key
    /\ IF error THEN shown' = Zero /\ Forgotten(FALSE)
       ELSE LET whole == IF pending = NoOp THEN Value(shown) ELSE a * Value(shown)
            IN  /\ Abs(whole) % 100 = 0
                /\ Show(IF whole < 0 THEN -(Abs(whole) \div 100) ELSE whole \div 100, pending)
                /\ UNCHANGED <<a, last, lastOperand>>
    /\ op' = IF error \/ error' THEN NoOp ELSE op
    /\ fresh' = TRUE /\ percent' = TRUE /\ expected' = NoValue
    /\ UNCHANGED <<acc, odd>>

\* calc_clear_entry
ClearEntry ==
    /\ Key
    /\ shown' = Zero /\ input' = TRUE /\ error' = FALSE
    /\ UNCHANGED <<a, pending, last, lastOperand, odd>>
    /\ Entered(FALSE)

\* calc_all_clear
AllClear ==
    /\ Key
    /\ shown' = Zero /\ Cleared
    /\ op' = NoOp /\ fresh' = TRUE /\ percent' = FALSE /\ expected' = NoValue
    /\ UNCHANGED <<acc, odd>>

\* Mutant of First: the operands are swapped.
FirstSwapped(x, o, y) == Apply(y, o, x)

\* The pending operation with the number shown.
First(x, o, y) == Apply(x, o, y)

\* calc_evaluate: the pending operation, or the last one again.
Evaluate ==
    /\ Key /\ ~error
    /\ LET y == Value(shown)
       IN  IF pending # NoOp
           THEN /\ Whole(a, pending, y)
                /\ Show(First(a, pending, y), NoOp)
                /\ IF pending = "/" /\ y = 0 THEN UNCHANGED <<a, last, lastOperand>>
                   ELSE a' = First(a, pending, y) /\ last' = pending /\ lastOperand' = y
           ELSE IF last # NoOp
           THEN /\ Whole(y, last, lastOperand)
                /\ Show(Apply(y, last, lastOperand), NoOp)
                /\ a' = IF last = "/" /\ lastOperand = 0 THEN a ELSE Apply(y, last, lastOperand)
                /\ UNCHANGED <<last, lastOperand>>
           ELSE UNCHANGED <<shown, error, input, a, pending, last, lastOperand>>
    /\ expected' = IF op = NoOp THEN NoValue ELSE Apply(acc, op, Value(shown))
    /\ op' = NoOp /\ fresh' = TRUE /\ percent' = FALSE
    /\ UNCHANGED <<acc, odd>>

\* Mutant of Operator: a chain is not evaluated.
OperatorReplaces(k) ==
    /\ IF pending = NoOp THEN a' = Value(shown) ELSE UNCHANGED a
    /\ pending' = k /\ input' = FALSE
    /\ UNCHANGED <<shown, error>>

\* calc_set_operator: a pending operation is done first, when a number has been
\* typed for it; else the operator replaces it.
Operator(k) ==
    IF pending # NoOp /\ input
    THEN /\ Whole(a, pending, Value(shown))
         /\ Show(First(a, pending, Value(shown)), k)
         /\ a' = IF pending = "/" /\ Value(shown) = 0 THEN a ELSE First(a, pending, Value(shown))
    ELSE /\ IF pending = NoOp THEN a' = Value(shown) ELSE UNCHANGED a
         /\ pending' = k /\ input' = FALSE
         /\ UNCHANGED <<shown, error>>

SetOperator ==
    /\ Key /\ ~error
    /\ \E k \in Ops :
           /\ Operator(k)
           /\ op' = IF error' THEN NoOp ELSE k
    /\ acc' = IF op = NoOp THEN Value(shown) ELSE IF fresh THEN Apply(acc, op, Value(shown)) ELSE acc
    /\ odd' = (odd \/ (op # NoOp /\ percent))
    /\ fresh' = FALSE /\ percent' = FALSE /\ expected' = NoValue
    /\ UNCHANGED <<last, lastOperand>>

Next ==
    \/ Digit \/ ToggleSign \/ Backspace \/ Percent \/ ClearEntry \/ AllClear
    \/ Evaluate \/ SetOperator

Spec == Init /\ [][Next]_vars

-----------------------------------------------------------------------------
(* Properties. *)

\* The variables are of their types; no operator waits behind an error.
TypeOK ==
    /\ shown.neg \in BOOLEAN /\ shown.mag \in 0 .. Largest
    /\ pending \in Ops \cup {NoOp} /\ last \in Ops \cup {NoOp}
    /\ error => pending = NoOp

\* "=" shows what the entries give from left to right, or an error when that
\* does not fit the display or does not exist; unless the sign was changed with
\* an operator pending, which overwrites the first operand, or an operator came
\* straight after a percentage, which forgets it.
CalculatesInOrder ==
    expected # NoValue /\ ~odd =>
        IF Fits(expected) THEN ~error /\ Value(shown) = expected ELSE error
=============================================================================
