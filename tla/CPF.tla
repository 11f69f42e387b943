-------------------------------- MODULE CPF --------------------------------
(***************************************************************************)
(* Check digits.  A CPF arrives as a sequence of characters, of which a    *)
(* digit is its value and any other character is no number.                *)
(***************************************************************************)
EXTENDS Integers, Sequences

Digits == 0 .. 9

\* The sums of the loop for the positions 9 and 10 (counted from 0).
FirstSum(cpf) ==
    cpf[1] * 10 + cpf[2] * 9 + cpf[3] * 8 + cpf[4] * 7 + cpf[5] * 6
    + cpf[6] * 5 + cpf[7] * 4 + cpf[8] * 3 + cpf[9] * 2

SecondSum(cpf) ==
    cpf[1] * 11 + cpf[2] * 10 + cpf[3] * 9 + cpf[4] * 8 + cpf[5] * 7
    + cpf[6] * 6 + cpf[7] * 5 + cpf[8] * 4 + cpf[9] * 3 + cpf[10] * 2

\* Slip (mutant): the last remainder is left out.
CheckDigitTen(sum) == (sum * 10) % 11

CheckDigit(sum) == ((sum * 10) % 11) % 10

IsNumber(cpf)      == Len(cpf) = 11 /\ \A i \in 1 .. 11 : cpf[i] \in Digits
AllDigitsEqual(cpf) == \A i \in 1 .. 11 : cpf[i] = cpf[1]

isValidCPF(cpf) ==
    /\ IsNumber(cpf)
    /\ ~AllDigitsEqual(cpf)
    /\ cpf[10] = CheckDigit(FirstSum(cpf))
    /\ cpf[11] = CheckDigit(SecondSum(cpf))

(***************************************************************************)
(* The rule as the register of taxpayers states it: a remainder below two  *)
(* gives the digit 0, any other remainder what it lacks to eleven.         *)
(***************************************************************************)
DigitOfRemainder(sum) == IF sum % 11 < 2 THEN 0 ELSE 11 - (sum % 11)

IsCPF(cpf) ==
    /\ IsNumber(cpf)
    /\ ~AllDigitsEqual(cpf)
    /\ cpf[10] = DigitOfRemainder(FirstSum(cpf))
    /\ cpf[11] = DigitOfRemainder(SecondSum(cpf))
=============================================================================
