-------------------------- MODULE FieldConversion --------------------------
(* The field conversions of virtual_gw_main.c: fill_qformat_local() gives  *)
(* a field its value, format_conversion_local() then runs the field's      *)
(* conversion codes over it, "code+code+...".  A string is a sequence of   *)
(* characters.  Converters write to a buffer dst; the value takes it over  *)
(* after every converter that succeeds, and once more at the end.          *)
EXTENDS Naturals, Sequences, FiniteSets

CONSTANTS
    Char,    \* the characters
    Fields,  \* records [fill, len, conv, deflt]: the fields of a format
    Given    \* the values a request, the cache, a stream or the clock has

MAX_MULTI_CONVERSION == 10

CHECK_LENGTH == 1..128
CHECK_FIELD_LENGTH == 130
CHECK_NUMERIC_ONLY == 131
CHECK_ALPHA_ONLY == 132
STOP_CONV == 143
STOP_CONV_IF_BLANK == 144
FILL_SPACE == 200
FILL_SPACE_LEFT == 201
FILL_SPACE_RIGHT == 202
FILL_ZERO_LEFT == 203
DEL_SPACE == 300
CHG_PLUS_TO_SPACE == 400
ADD_HAN_WON == 500
ADD_HAN_DOLLOR == 501
ADD_CHAR_DOLLOR == 502
ADD_CHAR_PERCENT == 503
INS_SLASH_TO_DATE == 600
INS_HYPHEN_TO_DATE == 601
TO_UPPER == 700
TO_LOWER == 701
TO_NUMBER == 702
FIT_LEFT == 800

(* The character classes of ctype.h, as far as the values need them.       *)
Digit == {"0", "1", "2", "8"}
upperOf == [a |-> "A", b |-> "B"]
lowerOf == [A |-> "a", B |-> "b"]
Alpha == DOMAIN upperOf \cup DOMAIN lowerOf
Blank == " "
NUL == "\\0"

(* The characters the converters write; the Korean units are two bytes     *)
(* each.                                                                   *)
Written == Digit \cup {upperOf[c]: c \in DOMAIN upperOf} \cup {lowerOf[c]: c \in DOMAIN lowerOf}
           \cup {Blank, NUL, "+", "-", "/", "%", "won1", "won2", "dal1", "dal2",
                 "reo1", "reo2", "usd1", "usd2"}

ASSUME FieldConversionAssumption ==
    /\ Written \subseteq Char
    /\ Given \subseteq Seq(Char)
    /\ \A f \in Fields: f.len \in Nat /\ f.conv \in Seq(Nat) /\ f.deflt \in Seq(Char)

VARIABLES
    field,   \* the field in work
    value,   \* w->s[i]->value, *str in format_conversion_local()
    dst,     \* the output buffer
    k,       \* i of the loop over the codes
    convPc   \* fill, convert, done

convVars == <<field, value, dst, k, convPc>>

-----------------------------------------------------------------------------
(* The converters: what is in dst, and whether they return 0.              *)

Result(ok, s) == [ok |-> ok, dst |-> s]

Pad(c, n) == [i \in 1..n |-> c]
Shorter(m, n) == IF m < n THEN m ELSE n
Consists(s, class) == \A i \in 1..Len(s): s[i] \in class
Mapped(s, f) == [i \in 1..Len(s) |-> IF s[i] \in DOMAIN f THEN f[s[i]] ELSE s[i]]

check_length(code, src, len) ==
    Result(Len(src) = IF code = CHECK_FIELD_LENGTH THEN len ELSE code, src)

(* Fault: the source is not copied before it is looked at.                 *)
check_chars_uncopied(code, src) ==
    LET ok == Consists(src, IF code = CHECK_ALPHA_ONLY THEN Alpha ELSE Digit)
    IN  Result(ok, IF ok THEN src ELSE <<>>)

check_chars(code, src) ==
    Result(Consists(src, IF code = CHECK_ALPHA_ONLY THEN Alpha ELSE Digit), src)

(* Fault: one character of padding too many.                               *)
fill_chars_long(code, src, len) ==
    LET ch  == IF code = FILL_ZERO_LEFT THEN "0" ELSE Blank
        gap == (len + 1) - Len(src)
    IN  IF code = FILL_SPACE THEN Result(TRUE, Pad(ch, len))
        ELSE IF Len(src) > len THEN Result(FALSE, <<>>)
        ELSE Result(TRUE, IF code = FILL_SPACE_RIGHT THEN src \o Pad(ch, gap)
                                                     ELSE Pad(ch, gap) \o src)

(* A source longer than the field is refused, with dst already emptied.    *)
fill_chars(code, src, len) ==
    LET ch  == IF code = FILL_ZERO_LEFT THEN "0" ELSE Blank
        gap == len - Len(src)
    IN  IF code = FILL_SPACE THEN Result(TRUE, Pad(ch, len))
        ELSE IF Len(src) > len THEN Result(FALSE, <<>>)
        ELSE Result(TRUE, IF code = FILL_SPACE_RIGHT THEN src \o Pad(ch, gap)
                                                     ELSE Pad(ch, gap) \o src)

del_chars(src) ==
    LET kept[i \in 0..Len(src)] ==
            IF i = 0 THEN <<>>
            ELSE IF src[i] = Blank THEN kept[i - 1] ELSE Append(kept[i - 1], src[i])
    IN  Result(TRUE, kept[Len(src)])

change_chars(src) ==
    Result(TRUE, [i \in 1..Len(src) |-> IF src[i] = "+" THEN Blank ELSE src[i]])

add_string(code, src) ==
    Result(TRUE, src \o CASE code = ADD_HAN_WON      -> <<"won1", "won2">>
                          [] code = ADD_HAN_DOLLOR   -> <<"dal1", "dal2", "reo1", "reo2">>
                          [] code = ADD_CHAR_DOLLOR  -> <<"usd1", "usd2">>
                          [] code = ADD_CHAR_PERCENT -> <<"%">>)

(* Year, month and day are cut at the length of the FIELD, not of the      *)
(* value: a shorter value ends where its own NUL is copied.                *)
ins_chars_to_date(code, src, len) ==
    LET ch    == IF code = INS_SLASH_TO_DATE THEN "/" ELSE "-"
        year  == IF len > 4 THEN len - 4 ELSE 0
        at(i) == IF i <= Len(src) THEN src[i] ELSE NUL
        all   == [i \in 1..year |-> at(i)] \o (IF len > 4 THEN <<ch>> ELSE <<>>)
                 \o <<at(year + 1), at(year + 2), ch, at(year + 3), at(year + 4)>>
        ends  == {i \in 1..Len(all): all[i] = NUL}
    IN  Result(TRUE, IF ends = {} THEN all
                     ELSE SubSeq(all, 1, (CHOOSE i \in ends: \A j \in ends: i <= j) - 1))

to_upper(src) == Result(TRUE, Mapped(src, upperOf))
to_lower(src) == Result(TRUE, Mapped(src, lowerOf))

(* strtoll() and "%lld": the number a value starts with, without leading   *)
(* zeros, 0 if there is none.  The values are short enough not to saturate. *)
to_number(src) ==
    LET From(s, class) == SubSeq(s, 1 + Cardinality({i \in 1..Len(s):
                              Consists(SubSeq(s, 1, i), class)}), Len(s))
        text   == From(src, {Blank})
        sign   == IF text # <<>> /\ Head(text) \in {"+", "-"} THEN <<Head(text)>> ELSE <<>>
        body   == From(SubSeq(text, 1 + Len(sign), Len(text)), {"0"})
        digits == SubSeq(body, 1, Len(body) - Len(From(body, Digit)))
    IN  Result(TRUE, IF digits = <<>> THEN <<"0">>
                     ELSE (IF sign = <<"-">> THEN sign ELSE <<>>) \o digits)

fit_chars(src, len) == Result(TRUE, SubSeq(src, 1, Shorter(len, Len(src))))

(* Codes without a case, DEL_COMMA, CHG_ZERO_TO_SPACE and DISPLAY_PWD      *)
(* among them, copy the source and fail.                                   *)
do_convert_local(code, src, len) ==
    CASE code \in CHECK_LENGTH \cup {CHECK_FIELD_LENGTH} -> check_length(code, src, len)
      [] code \in {CHECK_NUMERIC_ONLY, CHECK_ALPHA_ONLY} -> check_chars(code, src)
      [] code \in FILL_SPACE..FILL_ZERO_LEFT             -> fill_chars(code, src, len)
      [] code = DEL_SPACE                                -> del_chars(src)
      [] code = CHG_PLUS_TO_SPACE                        -> change_chars(src)
      [] code \in ADD_HAN_WON..ADD_CHAR_PERCENT          -> add_string(code, src)
      [] code \in {INS_SLASH_TO_DATE, INS_HYPHEN_TO_DATE} -> ins_chars_to_date(code, src, len)
      [] code = TO_UPPER                                 -> to_upper(src)
      [] code = TO_LOWER                                 -> to_lower(src)
      [] code = TO_NUMBER                                -> to_number(src)
      [] code = FIT_LEFT                                 -> fit_chars(src, len)
      [] OTHER                                           -> Result(FALSE, src)

-----------------------------------------------------------------------------
parse_codeseq_local(conv) == SubSeq(conv, 1, Shorter(MAX_MULTI_CONVERSION, Len(conv)))

Codes == parse_codeseq_local(field.conv)
Skipped == {0, STOP_CONV_IF_BLANK}

(* Does the loop go past the code at k without a converter, or end there?  *)
StopsAt(code) ==
    \/ code = STOP_CONV
    \/ code = STOP_CONV_IF_BLANK /\ Consists(value, {Blank})

(* One field of fill_qformat_local().  A request or a cache without the    *)
(* field leaves the default; a fixed field has nothing else.  A sequence   *)
(* of codes that is empty or begins with 0 is not run at all.              *)
Fill ==
    /\ convPc = "fill"
    /\ \/ field.fill \in {"POST", "CACHE"} /\ value' \in Given \cup {value}
       \/ field.fill \in {"STREAM", "DATE", "HOSTID"} /\ value' \in Given
       \/ field.fill = "FIXED" /\ UNCHANGED value
    /\ dst' = value'
    /\ convPc' = IF Codes = <<>> \/ Codes[1] = 0 THEN "done" ELSE "convert"
    /\ UNCHANGED <<field, k>>

Skip ==
    /\ convPc = "convert" /\ k <= Len(Codes)
    /\ Codes[k] \in Skipped /\ ~StopsAt(Codes[k])
    /\ k' = k + 1
    /\ UNCHANGED <<field, value, dst, convPc>>

(* A converter that fails leaves the value, and the loop goes on.          *)
Convert ==
    /\ convPc = "convert" /\ k <= Len(Codes)
    /\ Codes[k] \notin Skipped /\ ~StopsAt(Codes[k])
    /\ LET r == do_convert_local(Codes[k], value, field.len)
       IN  /\ dst' = r.dst
           /\ value' = IF r.ok THEN r.dst ELSE value
    /\ k' = k + 1
    /\ UNCHANGED <<field, convPc>>

(* The value takes over what is in dst, also after a converter that failed. *)
Finish ==
    /\ convPc = "convert"
    /\ k <= Len(Codes) => StopsAt(Codes[k])
    /\ value' = dst
    /\ convPc' = "done"
    /\ UNCHANGED <<field, dst, k>>

ConvInit ==
    /\ field \in Fields
    /\ value = field.deflt
    /\ dst = <<>>
    /\ k = 1
    /\ convPc = "fill"

ConvNext == Fill \/ Skip \/ Convert \/ Finish

ConvSpec == ConvInit /\ [][ConvNext]_convVars

-----------------------------------------------------------------------------
(* A conversion that fails changes nothing, with one exception: padding a  *)
(* value that is longer than its field erases it, because the buffer was   *)
(* emptied first and the last assignment takes it over.                    *)
FailureErasesOnlyOverlong ==
    [][convPc = "convert" /\ convPc' = "done" =>
          \/ value' = value
          \/ value' = <<>> /\ Len(value) > field.len]_convVars

(* The code at j is the last one a converter was run for.                  *)
LastRun(j) ==
    /\ j \in 1..(k - 1) /\ Codes[j] \notin Skipped
    /\ \A i \in (j + 1)..(k - 1): Codes[i] \in Skipped

(* Whatever came before, a field whose last conversion was a padding has   *)
(* exactly its length or, see above, nothing; after FIT_LEFT it fits.      *)
FilledFieldHasItsLength ==
    convPc = "done" =>
        \A j \in 1..(k - 1): LastRun(j) =>
            /\ Codes[j] \in FILL_SPACE..FILL_ZERO_LEFT => Len(value) \in {0, field.len}
            /\ Codes[j] = FIT_LEFT => Len(value) <= field.len
=============================================================================
