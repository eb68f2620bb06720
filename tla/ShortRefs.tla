------------------------------ MODULE ShortRefs ------------------------------
(***************************************************************************)
(* The short code of an intent (intents/shortRef.ts): a body of digits and *)
(* a Damm check digit, and what the rail reads of a remittance in which a  *)
(* payer has typed it.  A code is a sequence of digits.                    *)
(***************************************************************************)
EXTENDS Naturals, Sequences, FiniteSets

CONSTANT NoCode

\* DAMM.
Damm == <<<<0, 3, 1, 7, 5, 9, 8, 6, 4, 2>>, <<7, 0, 9, 2, 1, 5, 4, 8, 6, 3>>,
          <<4, 2, 0, 6, 8, 7, 1, 3, 5, 9>>, <<1, 7, 5, 0, 9, 8, 3, 4, 2, 6>>,
          <<6, 1, 2, 3, 0, 4, 5, 9, 7, 8>>, <<3, 6, 7, 4, 2, 0, 9, 5, 8, 1>>,
          <<5, 8, 6, 9, 7, 2, 0, 1, 3, 4>>, <<8, 9, 4, 5, 3, 6, 2, 0, 1, 7>>,
          <<9, 4, 3, 8, 6, 1, 7, 2, 0, 5>>, <<2, 5, 8, 1, 4, 3, 6, 7, 9, 0>>>>

DammInterim(digits) ==
  LET interim[n \in 0..Len(digits)] ==
        IF n = 0 THEN 0 ELSE Damm[interim[n - 1] + 1][digits[n] + 1]
  IN interim[Len(digits)]

ShortRefFromBody(body) == Append(body, DammInterim(body))

\* SHORT_REF_MIN_BODY .. SHORT_REF_MAX_BODY, and the check digit.
IsValidShortRef(code) == Len(code) \in 4..7 /\ DammInterim(code) = 0

\* The one code of a remittance: memo and reference must not name two.
ShortRefFromOrder(memo, reference) ==
  LET codes == {c \in {memo, reference} \ {NoCode} : IsValidShortRef(c)}
  IN IF Cardinality(codes) = 1 THEN CHOOSE c \in codes : TRUE ELSE NoCode

\* What a payer may type for it: with a digit wrong, or two neighbours swapped.
Typed(code) ==
  {[code EXCEPT ![k] = d] : k \in DOMAIN code, d \in 0..9}
    \cup {[code EXCEPT ![k] = code[k + 1], ![k + 1] = code[k]] : k \in 1..(Len(code) - 1)}

\* What is read of that, alone or beside the code itself.
Reads(code) ==
  {ShortRefFromOrder(memo, reference) : memo \in Typed(code), reference \in {NoCode, code}}
=============================================================================
