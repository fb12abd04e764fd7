-------------------------------- MODULE Spend --------------------------------
(***************************************************************************)
(* The estimated spend of an entry of the usage ledger: a decimal text     *)
(* that record_model_usage parses into micros, adds to the text of the     *)
(* entry and prints again, under the lock that ModelUsage models.          *)
(*                                                                         *)
(* A text is split at its first point; the numerals of both parts are      *)
(* numbers below Base (10), and Other stands for any other character.      *)
(* Places (6) and U128_MAX are scaled.                                     *)
(***************************************************************************)
EXTENDS Integers, Sequences

CONSTANTS
  Base, Places, U128_MAX,
  Offers,  \* the spends callers report: [whole, fraction]
  NoSpend  \* a report or an entry without one

Other == -1

Digits == 0..Base - 1

Numerals == Seq({Other} \cup Digits)

Text == [whole : Numerals, fraction : Numerals]

ASSUME SpendAssumption ==
  /\ Base \in Nat /\ Base > 1
  /\ Places \in Nat /\ U128_MAX \in Nat
  /\ Offers \subseteq Text
  /\ NoSpend \notin Text

VARIABLES
  spent,  \* estimated_spend_usd of the task's entry, or NoSpend
  exact,  \* history: what was recorded since the entry was made is worth
  last    \* history: the spend of the last record and what became of it

spendVars == <<spent, exact, last>>

-----------------------------------------------------------------------------
Initial(s) == SubSeq(s, 1, Len(s) - 1)

number[s \in Numerals] == IF s = <<>> THEN 0 ELSE Base * number[Initial(s)] + s[Len(s)]

power[n \in Nat] == IF n = 0 THEN 1 ELSE Base * power[n - 1]

Micro == power[Places]

AllDigits(numerals) == numerals \in Seq(Digits)

\* The texts decimal_to_micros reads; u128 parsing fails beyond U128_MAX.
Decimal(t) ==
  /\ t.whole # <<>> /\ AllDigits(t.whole)
  /\ Len(t.whole) > 1 => t.whole[1] # 0
  /\ Len(t.fraction) <= Places /\ AllDigits(t.fraction)
  /\ number[t.whole] <= U128_MAX

\* Seeded fault: the fraction is padded on the left.
decimal_to_micros_left(t) == number[t.whole] * Micro + number[t.fraction]

\* The fraction is padded with zeros on the right.
decimal_to_micros(t) ==
  number[t.whole] * Micro + number[t.fraction] * power[Places - Len(t.fraction)]

to_string[n \in Nat] ==
  IF n < Base THEN <<n>> ELSE Append(to_string[n \div Base], n % Base)

trim_end[s \in Numerals] ==
  IF s = <<>> THEN s ELSE IF s[Len(s)] # 0 THEN s ELSE trim_end[Initial(s)]

padded(n) == [i \in 1..Places |-> (n \div power[Places - i]) % Base]

\* The fraction has Places numerals, up to the last that is not zero.
micros_to_decimal(n) ==
  [whole |-> to_string[n \div Micro], fraction |-> trim_end[padded(n % Micro)]]

\* normalize_spend fails on a text that is no decimal or too large.
Readable(t) == t # NoSpend => Decimal(t) /\ decimal_to_micros(t) <= U128_MAX

normalize_spend(t) == IF t = NoSpend THEN NoSpend ELSE micros_to_decimal(decimal_to_micros(t))

Micros(t) == IF t = NoSpend THEN 0 ELSE decimal_to_micros(t)

\* Seeded fault: the largest amount is taken for an overflow.
SpendFits_early(a, b) == Micros(a) + Micros(b) < U128_MAX

SpendFits(a, b) == Micros(a) + Micros(b) <= U128_MAX

add_decimal_strings(a, b) ==
  IF a = NoSpend /\ b = NoSpend THEN NoSpend ELSE micros_to_decimal(Micros(a) + Micros(b))

\* What numerals are worth, each by its place.
places[s \in Numerals] ==
  IF s = <<>> THEN 0 ELSE s[1] * power[Len(s) - 1] + places[Tail(s)]

\* What a text is worth: its numerals in units of the last one.
Worth(t) ==
  IF t = NoSpend THEN 0
    ELSE places[t.whole \o t.fraction] * power[Places - Len(t.fraction)]

-----------------------------------------------------------------------------
NoRecord == [offered |-> NoSpend, verdict |-> "none"]

SpendInit ==
  /\ spent = NoSpend
  /\ exact = 0
  /\ last = NoRecord

\* record_model_usage normalizes the offered spend, then adds it to what the
\* entry holds; a spend that is refused leaves the entry alone.
RecordSpend(t) ==
  \/ /\ Readable(t)
     /\ SpendFits(spent, normalize_spend(t))
     /\ spent' = add_decimal_strings(spent, normalize_spend(t))
     /\ exact' = exact + Worth(t)
     /\ last' = [offered |-> t, verdict |-> "recorded"]
  \/ /\ ~(Readable(t) /\ SpendFits(spent, normalize_spend(t)))
     /\ last' = [offered |-> t, verdict |-> IF Decimal(t) THEN "overflow" ELSE "invalid"]
     /\ UNCHANGED <<spent, exact>>

\* A record without a spend: the text of the entry is normalized once more.
RecordWithout ==
  /\ spent' = add_decimal_strings(spent, NoSpend)
  /\ UNCHANGED <<exact, last>>

\* The entry is cleared or evicted.
Forget ==
  /\ spent' = NoSpend
  /\ exact' = 0
  /\ last' = NoRecord

SpendNext == (\E t \in Offers : RecordSpend(t)) \/ RecordWithout \/ Forget

SpendSpec == SpendInit /\ [][SpendNext]_spendVars

-----------------------------------------------------------------------------
(* Properties. *)

\* The text in the ledger is worth exactly what was recorded, through any number
\* of parses and prints: no rounding, no shifted numeral.  It is the one text of
\* that amount, and one the parser reads, so that the next record finds what
\* this one left and tasks that spent the same report the same.
SpendIsExact ==
  /\ Worth(spent) = exact
  /\ Readable(spent)
  /\ spent # NoSpend /\ spent.fraction # <<>> => spent.fraction[Len(spent.fraction)] # 0

\* A spend written as a decimal is refused only when the sum does not fit: what
\* the ledger holds, however it came about, never keeps a spend from being
\* recorded, up to the largest sum.
RefusedOnlyWhenFull ==
  last.verdict = "overflow" => exact + Worth(last.offered) > U128_MAX

=============================================================================
